---- MODULE Spec2Model ----
(***************************************************************************)
(* State-machine model of the lowvr comparison view:                       *)
(*   - the zustand store (selectedRunIds, activeMetrics, xAxisKey),        *)
(*   - the multi-run metrics query (useMultiRunMetrics) and its fan-out,   *)
(*   - the ComparisonCharts component: stale-data guard, aligner, pin and  *)
(*     hover cursor, row layout and the resize drag.                       *)
(*                                                                         *)
(* JavaScript values are encoded as integers: a sample is a number >= 0,   *)
(* Null (-1) is JS null and Undefined (-2) is JS undefined.                *)
(***************************************************************************)
EXTENDS Integers, Sequences, FiniteSets, TLC

VARIABLES
    selectedRunIds,      \* store: selectedRunIds (the runIds prop of the view)
    activeMetrics,       \* store: activeMetrics
    xAxisKey,            \* store: xAxisKey
    serverData,          \* SeriesSource: what /api/runs/{id}/metrics would return
    mounted,             \* is ComparisonCharts mounted (App renders it)
    metricsData,         \* useMultiRunMetrics(...).data for the current query key
    isLoading,           \* useMultiRunMetrics(...).isLoading
    fetchState,          \* the in-flight queryFn: per-run promise states
    queryCache,          \* the query cache: the latest settled result and its key
    lastMetricsDataRef,  \* lastMetricsDataRef.current
    chartDataByMetric,   \* memoized aligner output, in insertion order
    pinnedXValue,        \* useState pinnedXValue
    pinnedColor,         \* useState pinnedColor
    hoveredXValue,       \* useState hoveredXValue
    columns,             \* useState columns
    expandedChart,       \* useState expandedChart ("" stands for null)
    rowSizes,            \* useState rowSizes: RowKey -> RowSize
    resize,              \* the closure of the resize drag in progress, if any
    lastDrop,            \* history: the last drop event handled by reorderMetrics
    resizeMoves,         \* history: the number of resize moves handled so far
    lastDelivered,       \* history: the latest non-empty result given to the view
    runSets,             \* store: runSets
    savedRunIds,         \* history: set id -> the selection that addRunSet was given
    lastLoad,            \* history: the last click on a run set and what it selected
    runsFetches,         \* the number of fetches of the runs list (useRuns) so far
    deleting,            \* the single-run delete in flight, with the selection its closure holds
    lastDelete,          \* history: the last successful delete and the selection around it
    pc                   \* position of the render pipeline (aligner specification)

vars == << selectedRunIds, activeMetrics, xAxisKey, serverData, mounted,
           metricsData, isLoading, fetchState, queryCache, lastMetricsDataRef,
           chartDataByMetric, pinnedXValue, pinnedColor, hoveredXValue, columns,
           expandedChart,
           rowSizes, resize, lastDrop, resizeMoves, lastDelivered, runSets,
           savedRunIds, lastLoad, runsFetches, deleting, lastDelete, pc >>

\* the layout state of the component
layoutState == << columns, expandedChart, rowSizes, resize >>

\* the layout state and the history of the layout events
layoutVars == << columns, expandedChart, rowSizes, resize, lastDrop, resizeMoves >>

\* the run sets of the store and the query of the runs list
appVars == << runSets, savedRunIds, lastLoad, runsFetches, deleting, lastDelete >>

\* the single-run delete of the run selector
deleteVars == << deleting, lastDelete >>

\* the selection, the metrics, the query and the cursor
coreVars == << selectedRunIds, activeMetrics, xAxisKey, serverData, mounted,
               metricsData, isLoading, fetchState, queryCache, lastMetricsDataRef,
               chartDataByMetric, pinnedXValue, pinnedColor, hoveredXValue,
               lastDelivered, pc >>

\* everything but the layout
viewVars == << coreVars, appVars >>

(***************************************************************************)
(* Bounds of the model                                                     *)
(***************************************************************************)
MaxLen == 2
MaxMoves == 2
MaxSets == 2
MaxRefresh == 2

(***************************************************************************)
(* Value encoding                                                          *)
(***************************************************************************)
Null == -1
Undefined == -2

RunIds == {"r1", "r2"}
XKeys == {"_step", "iter"}
PlotMetrics == {"loss", "acc"}
AllKeys == PlotMetrics \cup XKeys

Range(s) == {s[i] : i \in 1..Len(s)}

Max(a, b) == IF a >= b THEN a ELSE b
Min(a, b) == IF a <= b THEN a ELSE b

\* A JS Map / undefined: kind "undefined" or kind "map" with the entries in runs.
NoData == [kind |-> "undefined", runs |-> <<>>]
MapOf(f) == [kind |-> "map", runs |-> f]
MapSize(d) == IF d.kind = "map" THEN Cardinality(DOMAIN d.runs) ELSE 0

\* metricsData && metricsData.size > 0
NonEmpty(d) == d.kind = "map" /\ MapSize(d) > 0

\* no queryFn in flight
IdleFetch == [status |-> "idle", runs |-> <<>>]

\* useState(5): the initial number of columns
defaultColumns == 5

\* useState<string | null>(null): no chart is expanded
NoChart == ""

\* no run set was clicked yet
NoLoad == [id |-> 0]

\* no delete is in flight; no delete has succeeded
NoDelete == [runId |-> ""]

\* useState('#f59e0b')
defaultPinnedColor == "#f59e0b"

\* no resize drag in progress (no window listeners attached)
NoResize == [active |-> FALSE]

\* no drop event was handled yet
NoDrop == [dragMetric |-> "", targetMetric |-> "", before |-> <<>>]

(***************************************************************************)
(* StaleDataGuard                                                          *)
(***************************************************************************)
\* mutant of RefAfterRender: the ref is overwritten by every result, empty or not
RefAfterRender_Always(md, ref) == md

\* if (metricsData && metricsData.size > 0) lastMetricsDataRef.current = metricsData
RefAfterRender(md, ref) == IF NonEmpty(md) THEN md ELSE ref

\* stableMetricsData = (metricsData && metricsData.size > 0) ? metricsData : ref.current
StableOf(md, ref) == IF NonEmpty(md) THEN md ELSE ref

stableMetricsData == StableOf(metricsData, lastMetricsDataRef)

(***************************************************************************)
(* Aligner (chartDataByMetric)                                             *)
(***************************************************************************)
\* stableMetricsData.get(runId)?.[key] is an array
HasSeries(stable, r, k) ==
    /\ stable.kind = "map"
    /\ r \in DOMAIN stable.runs
    /\ k \in DOMAIN stable.runs[r]

\* stableMetricsData.get(runId)?.[key]?.[i]   (i is 0-based)
SampleAt(stable, r, k, i) ==
    IF HasSeries(stable, r, k) /\ i < Len(stable.runs[r][k])
    THEN stable.runs[r][k][i + 1]
    ELSE Undefined

\* mutant of MaxLenOver: maxLen = data[metric].length (the Math.max is dropped)
RECURSIVE MaxLenOver_NoMax(_, _, _, _)
MaxLenOver_NoMax(stable, runIds, metric, acc) ==
    IF runIds = <<>> THEN acc
    ELSE MaxLenOver_NoMax(stable, Tail(runIds), metric,
                          IF HasSeries(stable, Head(runIds), metric)
                          THEN Len(stable.runs[Head(runIds)][metric])
                          ELSE acc)

\* runIds.forEach(runId => { if (data?.[metric]) maxLen = Math.max(maxLen, len) })
RECURSIVE MaxLenOver(_, _, _, _)
MaxLenOver(stable, runIds, metric, acc) ==
    IF runIds = <<>> THEN acc
    ELSE MaxLenOver(stable, Tail(runIds), metric,
                    IF HasSeries(stable, Head(runIds), metric)
                    THEN Max(acc, Len(stable.runs[Head(runIds)][metric]))
                    ELSE acc)

\* runIds.find(runId => data?.[xAxisKey]?.[i] !== undefined); "" when none
RECURSIVE FirstRunWithX(_, _, _, _)
FirstRunWithX(stable, runIds, xk, i) ==
    IF runIds = <<>> THEN ""
    ELSE IF SampleAt(stable, Head(runIds), xk, i) # Undefined THEN Head(runIds)
    ELSE FirstRunWithX(stable, Tail(runIds), xk, i)

\* a ?? b
Coalesce(a, b) == IF a = Null \/ a = Undefined THEN b ELSE a

\* mutant of ResolveX: the sample of the run that was found is taken as it
\* is (the "?? i" is dropped)
ResolveX_NoFallback(stable, runIds, xk, i) ==
    LET first == FirstRunWithX(stable, runIds, xk, i)
    IN  IF first # "" THEN SampleAt(stable, first, xk, i) ELSE i

\* let xValue = i; if (firstRunWithX) xValue = data?.[xAxisKey]?.[i] ?? i
ResolveX(stable, runIds, xk, i) ==
    LET first == FirstRunWithX(stable, runIds, xk, i)
    IN  IF first # "" THEN Coalesce(SampleAt(stable, first, xk, i), i) ELSE i

\* mutant of PointAt: xValue is resolved over the runs that have a sample of
\* the metric at the index
PointAt_MetricX(stable, runIds, metric, xk, i) ==
    [key \in {"xValue"} \cup Range(runIds) |->
        IF key = "xValue"
        THEN ResolveX(stable,
                      SelectSeq(runIds,
                                LAMBDA r : SampleAt(stable, r, metric, i) # Undefined),
                      xk, i)
        ELSE Coalesce(SampleAt(stable, key, metric, i), Null)]

\* mutant of PointAt: the point has one entry per run of the held aggregate
PointAt_HeldRuns(stable, runIds, metric, xk, i) ==
    [key \in {"xValue"} \cup DOMAIN stable.runs |->
        IF key = "xValue" THEN ResolveX(stable, runIds, xk, i)
        ELSE Coalesce(SampleAt(stable, key, metric, i), Null)]

\* mutant of PointAt: a run past its end repeats its last sample (forward fill)
PointAt_ForwardFill(stable, runIds, metric, xk, i) ==
    [key \in {"xValue"} \cup Range(runIds) |->
        IF key = "xValue" THEN ResolveX(stable, runIds, xk, i)
        ELSE IF HasSeries(stable, key, metric)
                /\ Len(stable.runs[key][metric]) > 0
                /\ i >= Len(stable.runs[key][metric])
        THEN Coalesce(stable.runs[key][metric][Len(stable.runs[key][metric])], Null)
        ELSE Coalesce(SampleAt(stable, key, metric, i), Null)]

\* point = { xValue }; runIds.forEach(r => point[r] = data?.[metric]?.[i] ?? null)
PointAt(stable, runIds, metric, xk, i) ==
    [key \in {"xValue"} \cup Range(runIds) |->
        IF key = "xValue" THEN ResolveX(stable, runIds, xk, i)
        ELSE Coalesce(SampleAt(stable, key, metric, i), Null)]

\* the chartData array of one metric
AlignMetric(stable, runIds, metric, xk) ==
    [j \in 1..MaxLenOver(stable, runIds, metric, 0) |->
        PointAt(stable, runIds, metric, xk, j - 1)]

\* for (const metric of activeMetrics) { if (metric === xAxisKey) continue; ... }
\* the result object, as its entries in insertion order
RECURSIVE AlignAll(_, _, _, _)
AlignAll(stable, runIds, metrics, xk) ==
    IF metrics = <<>> THEN <<>>
    ELSE IF Head(metrics) = xk THEN AlignAll(stable, runIds, Tail(metrics), xk)
    ELSE << [metric |-> Head(metrics),
             data |-> AlignMetric(stable, runIds, Head(metrics), xk)] >>
         \o AlignAll(stable, runIds, Tail(metrics), xk)

\* if (!stableMetricsData) return {}
ChartDataOf(stable, runIds, metrics, xk) ==
    IF stable.kind # "map" THEN <<>> ELSE AlignAll(stable, runIds, metrics, xk)

(***************************************************************************)
(* Derived view state                                                      *)
(***************************************************************************)
\* chartDataByMetric[metric]; <<>> stands for a missing entry (undefined)
EntryData(cd, m) ==
    IF \E j \in 1..Len(cd) : cd[j].metric = m
    THEN cd[CHOOSE j \in 1..Len(cd) : cd[j].metric = m].data
    ELSE <<>>

HasEntry(cd, m) == \E j \in 1..Len(cd) : cd[j].metric = m

\* the render after a state change: the guard's ref and the useMemo of the aligner
Render(md, ref, runIds, metrics, xk) ==
    /\ lastMetricsDataRef' = RefAfterRender(md, ref)
    /\ chartDataByMetric' = ChartDataOf(StableOf(md, ref), runIds, metrics, xk)

\* let min = Infinity; let max = -Infinity
Infinity == -3
NegInfinity == -4

\* typeof value === 'number'
IsNumber(value) == value \notin {Null, Undefined}

MathMin(a, b) == IF a = Infinity THEN b ELSE IF b = Infinity THEN a ELSE Min(a, b)
MathMax(a, b) == IF a = NegInfinity THEN b ELSE IF b = NegInfinity THEN a ELSE Max(a, b)

\* mutant of PointRange: the test key !== 'xValue' is dropped
RECURSIVE PointRange_WithX(_, _, _)
PointRange_WithX(point, keys, acc) ==
    IF keys = {} THEN acc
    ELSE LET key == CHOOSE k \in keys : TRUE
             value == point[key]
         IN  PointRange_WithX(point, keys \ {key},
                 IF IsNumber(value)
                 THEN [min |-> MathMin(acc.min, value), max |-> MathMax(acc.max, value)]
                 ELSE acc)

\* for (const [key, value] of Object.entries(point)) { if (key !== 'xValue'
\* && typeof value === 'number') { min = Math.min(...); max = Math.max(...) } }
RECURSIVE PointRange(_, _, _)
PointRange(point, keys, acc) ==
    IF keys = {} THEN acc
    ELSE LET key == CHOOSE k \in keys : TRUE
             value == point[key]
         IN  PointRange(point, keys \ {key},
                 IF key # "xValue" /\ IsNumber(value)
                 THEN [min |-> MathMin(acc.min, value), max |-> MathMax(acc.max, value)]
                 ELSE acc)

\* for (const point of data) { ... }
RECURSIVE DataRange(_, _)
DataRange(data, acc) ==
    IF data = <<>> THEN acc
    ELSE DataRange(Tail(data), PointRange(Head(data), DOMAIN Head(data), acc))

\* dataRanges: for each entry of chartDataByMetric, { min, max } when
\* min !== Infinity && max !== -Infinity; the entries in insertion order
RECURSIVE DataRanges(_)
DataRanges(cd) ==
    IF cd = <<>> THEN <<>>
    ELSE LET r == DataRange(Head(cd).data, [min |-> Infinity, max |-> NegInfinity])
         IN  (IF r.min # Infinity /\ r.max # NegInfinity
              THEN << [metric |-> Head(cd).metric, min |-> r.min, max |-> r.max] >>
              ELSE <<>>)
             \o DataRanges(Tail(cd))

dataRanges == DataRanges(chartDataByMetric)

\* Array.from(new Set(xValues)).sort((a, b) => a - b), for a set of numbers
RECURSIVE SortNumeric(_)
SortNumeric(S) ==
    IF S = {} THEN <<>>
    ELSE LET lo == CHOOSE x \in S : \A y \in S : x <= y
         IN  <<lo>> \o SortNumeric(S \ {lo})

\* mutant of XAxisValueOptions: the xValues in the order of the points
XAxisValueOptions_Raw(cd) ==
    IF cd = <<>> THEN <<>>
    ELSE [j \in 1..Len(cd[1].data) |-> cd[1].data[j]["xValue"]]

\* xAxisValueOptions: the distinct xValues of the first entry of
\* chartDataByMetric (Object.keys(chartDataByMetric)[0]), sorted
XAxisValueOptions(cd) ==
    IF cd = <<>> THEN <<>>
    ELSE SortNumeric({cd[1].data[j]["xValue"] : j \in 1..Len(cd[1].data)})

xAxisValueOptions == XAxisValueOptions(chartDataByMetric)

\* pinnedIndex: -1 when pinnedXValue is null, else xs.findIndex(v => v === pinned)
PinnedIndex(xs, pinned) ==
    IF pinned = Null THEN -1
    ELSE IF \E j \in 1..Len(xs) : xs[j] = pinned
    THEN (CHOOSE j \in 1..Len(xs) : xs[j] = pinned) - 1
    ELSE -1

pinnedIndex == PinnedIndex(xAxisValueOptions, pinnedXValue)

\* if (isLoading && (!stableMetricsData || stableMetricsData.size === 0))
LoadingShown ==
    /\ mounted
    /\ activeMetrics # <<>>
    /\ isLoading
    /\ ~NonEmpty(stableMetricsData)

\* the main return of the component is rendered (toolbar and chart rows)
ControlsShown == mounted /\ activeMetrics # <<>> /\ ~LoadingShown

(***************************************************************************)
(* The metrics query (useMultiRunMetrics) and the SeriesSource             *)
(***************************************************************************)
\* const X_AXIS_KEYS = [...]; two of the six keys are modelled
X_AXIS_KEYS == <<"_step", "iter">>

RECURSIVE Dedupe(_, _)
Dedupe(s, seen) ==
    IF s = <<>> THEN <<>>
    ELSE IF Head(s) \in seen THEN Dedupe(Tail(s), seen)
    ELSE <<Head(s)>> \o Dedupe(Tail(s), seen \cup {Head(s)})

\* keys = activeMetrics.length > 0 ? activeMetrics : undefined
\* allKeys = keys?.length ? [...new Set([...keys, ...X_AXIS_KEYS])] : undefined
\* (<<>> stands for undefined)
AllKeysOf(metrics) ==
    IF metrics = <<>> THEN <<>> ELSE Dedupe(metrics \o X_AXIS_KEYS, {})

\* GET /api/runs/{id}/metrics?keys=...: the requested series the run has
\* (every series of the run when no keys are given)
ServerResponse(r, allKeys) ==
    LET wanted == IF allKeys = <<>> THEN DOMAIN serverData[r]
                  ELSE Range(allKeys) \cap DOMAIN serverData[r]
    IN  [k \in wanted |-> serverData[r][k]]

\* Promise.all(runIds.map(async (runId) => ...)): one pending promise per run
StartFetch(runIds) ==
    [status |-> "fetching",
     runs |-> [r \in Range(runIds) |-> "pending"],
     results |-> <<>>]

\* mutant of Rejects: an error response makes the per-run promise reject too
Rejects_HttpToo(outcome) == outcome \in {"net", "http"}

\* the per-run promise rejects only when fetch() itself rejects (network
\* error); an error response (!res.ok) resolves without results.set
Rejects(outcome) == outcome = "net"

\* results.set(runId, await res.json()) happens only if (res.ok)
ResultsAfter(results, r, outcome, allKeys) ==
    IF outcome = "ok"
    THEN [q \in DOMAIN results \cup {r} |->
            IF q = r THEN ServerResponse(r, allKeys) ELSE results[q]]
    ELSE results

\* mutant of AllSettled: the first settled per-run fetch is enough
AllSettled_Any(runs) == \E r \in DOMAIN runs : runs[r] # "pending"

\* Promise.all resolves when every per-run promise has resolved
AllSettled(runs) == \A r \in DOMAIN runs : runs[r] # "pending"

\* queryKey: ['multi-metrics', runIds, allKeys]
QueryKey(runIds, metrics) == << runIds, AllKeysOf(metrics) >>

\* the query cache, modelled with one entry: the latest settled result (the
\* entries of other keys are taken to be garbage-collected)
NoCache == [key |-> <<>>, data |-> NoData]

\* the cached data of a query key (undefined when the cache has none)
CacheLookup(cache, key) == IF cache.key = key THEN cache.data ELSE NoData

\* the result of a query is cached under its key
CachePut(cache, key, data) == [key |-> key, data |-> data]

(***************************************************************************)
(* Component state and its life cycle                                      *)
(***************************************************************************)
\* the update of the history variable when the query gives md to the view
Delivered(md) == lastDelivered' = IF NonEmpty(md) THEN md ELSE lastDelivered

\* a non-empty aggregate was given to the view at some time
everHeld == NonEmpty(lastDelivered)

\* App renders ComparisonCharts only when selectedRunIds.length > 0: the
\* component's refs and useState values are discarded with it
Unmount ==
    /\ mounted' = FALSE
    /\ metricsData' = NoData
    /\ isLoading' = FALSE
    /\ fetchState' = IdleFetch
    /\ lastMetricsDataRef' = NoData
    /\ chartDataByMetric' = <<>>
    /\ pinnedXValue' = Null
    /\ pinnedColor' = defaultPinnedColor
    /\ hoveredXValue' = Null
    /\ columns' = defaultColumns
    /\ expandedChart' = NoChart
    /\ rowSizes' = <<>>
    /\ resize' = NoResize
    /\ UNCHANGED << queryCache, lastDelivered >>

\* the query key ['multi-metrics', runIds, allKeys] changed (or the view was
\* mounted): the view gets the cached data of the new key, if any; a key
\* without cached data is loading and its queryFn starts
KeyChanged(runIds, metrics) ==
    LET cached == CacheLookup(queryCache, QueryKey(runIds, metrics))
    IN  /\ mounted' = TRUE
        /\ metricsData' = cached
        /\ isLoading' = (cached.kind = "undefined")
        /\ fetchState' = IF cached.kind = "undefined" THEN StartFetch(runIds)
                         ELSE IdleFetch
        /\ Render(cached, lastMetricsDataRef, runIds, metrics, xAxisKey)
        /\ Delivered(cached)
        /\ UNCHANGED << queryCache, pinnedXValue, pinnedColor, hoveredXValue, layoutState >>

(***************************************************************************)
(* Store operations                                                        *)
(***************************************************************************)
Without(s, x) == SelectSeq(s, LAMBDA y : y # x)

\* mutant of ToggleSeq: the element is appended without the includes test
ToggleSeq_Append(s, x) == Append(s, x)

\* toggleRunSelection: selectedRunIds.includes(runId) ? filter : [...ids, runId]
ToggleSeq(s, x) == IF x \in Range(s) THEN Without(s, x) ELSE Append(s, x)

ToggleRunSelection(r) ==
    /\ selectedRunIds' = ToggleSeq(selectedRunIds, r)
    /\ IF selectedRunIds' = <<>> THEN Unmount
       ELSE KeyChanged(selectedRunIds', activeMetrics)
    /\ UNCHANGED << activeMetrics, xAxisKey, serverData, lastDrop, resizeMoves, pc, appVars >>

\* toggleMetric (MetricSelector checkbox, or the "Remove metric" button)
ToggleMetric(m) ==
    /\ activeMetrics' = ToggleSeq(activeMetrics, m)
    /\ IF mounted THEN KeyChanged(selectedRunIds, activeMetrics')
       ELSE UNCHANGED << mounted, metricsData, isLoading, fetchState, queryCache,
                         lastMetricsDataRef, chartDataByMetric, pinnedXValue, pinnedColor,
                         hoveredXValue, layoutState, lastDelivered >>
    /\ UNCHANGED << selectedRunIds, xAxisKey, serverData, lastDrop, resizeMoves, pc, appVars >>

\* setActiveMetrics(metrics) from the metric selector, which is shown while
\* runs are selected; a list equal to the active one gives the same query key
SetActiveMetrics(metrics) ==
    /\ selectedRunIds # <<>>
    /\ activeMetrics' = metrics
    /\ IF metrics # activeMetrics /\ mounted
       THEN KeyChanged(selectedRunIds, metrics)
       ELSE UNCHANGED << mounted, metricsData, isLoading, fetchState, queryCache,
                         lastMetricsDataRef, chartDataByMetric, pinnedXValue, pinnedColor,
                         hoveredXValue, layoutState, lastDelivered >>
    /\ UNCHANGED << selectedRunIds, xAxisKey, serverData, lastDrop, resizeMoves, pc, appVars >>

\* selectAllInGroup: metrics are the metrics of the group that pass the search
\*   allSelected ? activeMetrics.filter(m => !metrics.includes(m))
\*               : [...new Set([...activeMetrics, ...metrics])]
SelectAllInGroup(metrics) ==
    LET allSelected == \A j \in 1..Len(metrics) : metrics[j] \in Range(activeMetrics)
    IN  SetActiveMetrics(IF allSelected
                         THEN SelectSeq(activeMetrics, LAMBDA m : m \notin Range(metrics))
                         ELSE Dedupe(activeMetrics \o metrics, {}))

\* onClick of the "Clear (n)" button, shown when activeMetrics.length > 0
ClearMetrics ==
    /\ Len(activeMetrics) > 0
    /\ SetActiveMetrics(<<>>)

\* setXAxisKey (the X-axis select of the toolbar)
SetXAxisKey(k) ==
    /\ ControlsShown
    /\ xAxisKey' = k
    /\ Render(metricsData, lastMetricsDataRef, selectedRunIds, activeMetrics, k)
    /\ UNCHANGED << selectedRunIds, activeMetrics, serverData, mounted, metricsData,
                    isLoading, fetchState, queryCache, pinnedXValue, pinnedColor, hoveredXValue,
                    layoutVars, lastDelivered, pc, appVars >>

\* clearSelection / selectRuns: set({ selectedRunIds: runIds }); the query key
\* of the view follows the selection, and the view is unmounted while the
\* selection is empty
SelectionSet(runIds) ==
    /\ selectedRunIds' = runIds
    /\ IF runIds = selectedRunIds
       THEN UNCHANGED << mounted, metricsData, isLoading, fetchState, queryCache,
                         lastMetricsDataRef, chartDataByMetric, pinnedXValue,
                         pinnedColor, hoveredXValue, layoutState, lastDelivered >>
       ELSE IF runIds = <<>> THEN Unmount
       ELSE KeyChanged(runIds, activeMetrics)
    /\ UNCHANGED << activeMetrics, xAxisKey, serverData, lastDrop, resizeMoves, pc >>

\* onClick of the "Clear" button of the run selector
ClearSelection ==
    /\ SelectionSet(<<>>)
    /\ UNCHANGED appVars

(***************************************************************************)
(* Refresh (App): refetch is the refetch of useRuns, the query ['runs']    *)
(***************************************************************************)
\* refetch(): GET /api/runs is issued again; the query ['multi-metrics', ...]
\* is not touched
RunsRefetch ==
    /\ runsFetches < MaxRefresh
    /\ runsFetches' = runsFetches + 1
    /\ UNCHANGED << coreVars, layoutVars, runSets, savedRunIds, lastLoad, deleteVars >>

\* onClick of the refresh button
ManualRefresh == RunsRefetch

\* the callback of setInterval(..., refreshInterval * 1000) while autoRefresh
TimedRefresh == RunsRefetch

(***************************************************************************)
(* Run sets (RunSetsPanel and the store)                                   *)
(***************************************************************************)
RUN_COLORS ==
    << "#E91E63", "#9C27B0", "#673AB7", "#3F51B5", "#2196F3", "#00BCD4",
       "#009688", "#4CAF50", "#8BC34A", "#CDDC39", "#FFEB3B", "#FFC107",
       "#FF9800", "#FF5722", "#795548", "#9E9E9E", "#607D8B" >>

\* mutant of RunSetOf: the run ids are stored in reverse order
RunSetOf_Reversed(id, name, runIds, count) ==
    [id |-> id, name |-> name,
     runIds |-> [j \in 1..Len(runIds) |-> runIds[Len(runIds) + 1 - j]],
     color |-> RUN_COLORS[(count % Len(RUN_COLORS)) + 1]]

\* the RunSet that addRunSet(name, runIds) appends to count existing sets;
\* id is the value of crypto.randomUUID()
RunSetOf(id, name, runIds, count) ==
    [id |-> id, name |-> name, runIds |-> runIds,
     color |-> RUN_COLORS[(count % Len(RUN_COLORS)) + 1]]

\* handleCreateSet with the trimmed text name in the input: addRunSet(name,
\* selectedRunIds); the new id is one that was never given before
AddRunSet(name) ==
    /\ name # ""
    /\ selectedRunIds # <<>>
    /\ Len(savedRunIds) < MaxSets
    /\ runSets' = Append(runSets, RunSetOf(Len(savedRunIds) + 1, name,
                                           selectedRunIds, Len(runSets)))
    /\ savedRunIds' = Append(savedRunIds, selectedRunIds)
    /\ UNCHANGED << coreVars, layoutVars, lastLoad, runsFetches, deleteVars >>

\* handleSaveEdit with the trimmed text name: updateRunSet(id, { name })
RenameRunSet(i, name) ==
    /\ i \in 1..Len(runSets)
    /\ name # ""
    /\ runSets' = [runSets EXCEPT ![i] = [@ EXCEPT !.name = name]]
    /\ UNCHANGED << coreVars, layoutVars, savedRunIds, lastLoad, runsFetches, deleteVars >>

\* deleteRunSet(id) of the i-th set
DeleteRunSet(i) ==
    /\ i \in 1..Len(runSets)
    /\ runSets' = SelectSeq(runSets, LAMBDA s : s.id # runSets[i].id)
    /\ UNCHANGED << coreVars, layoutVars, savedRunIds, lastLoad, runsFetches, deleteVars >>

\* handleLoadSet of the i-th set: selectRuns(set.runIds)
LoadSet(i) ==
    /\ i \in 1..Len(runSets)
    /\ SelectionSet(runSets[i].runIds)
    /\ lastLoad' = [id |-> runSets[i].id, before |-> selectedRunIds,
                    after |-> selectedRunIds']
    /\ UNCHANGED << runSets, savedRunIds, runsFetches, deleteVars >>

(***************************************************************************)
(* Single-run delete (RunSelector handleDeleteRun)                         *)
(***************************************************************************)
\* onClick of the Delete button of the confirmation dialog, enabled while
\* !isDeleting: handleDeleteRun(runId) of the current render starts and
\* awaits fetch(DELETE); its closure holds the selectedRunIds of that render
DeleteStart(r) ==
    /\ deleting = NoDelete
    /\ deleting' = [runId |-> r, selectedRunIds |-> selectedRunIds]
    /\ UNCHANGED << coreVars, layoutVars, runSets, savedRunIds, lastLoad,
                    runsFetches, lastDelete >>

\* the response of the DELETE request is ok:
\*   if (selectedRunIds.includes(runId))
\*     selectRuns(selectedRunIds.filter(id => id !== runId))
\*   await queryClient.invalidateQueries({ queryKey: ['runs'] })
\* with the selectedRunIds of the closure
DeleteOk ==
    /\ deleting # NoDelete
    /\ runsFetches < MaxRefresh
    /\ IF deleting.runId \in Range(deleting.selectedRunIds)
       THEN SelectionSet(Without(deleting.selectedRunIds, deleting.runId))
       ELSE UNCHANGED << coreVars, layoutState >>
    /\ runsFetches' = runsFetches + 1
    /\ deleting' = NoDelete
    /\ lastDelete' = [runId |-> deleting.runId, closure |-> deleting.selectedRunIds,
                      before |-> selectedRunIds, after |-> selectedRunIds']
    /\ UNCHANGED << lastDrop, resizeMoves, runSets, savedRunIds, lastLoad >>

\* the response is not ok, or the request fails: alert(...), nothing is stored
DeleteFailed ==
    /\ deleting # NoDelete
    /\ deleting' = NoDelete
    /\ UNCHANGED << coreVars, layoutVars, runSets, savedRunIds, lastLoad,
                    runsFetches, lastDelete >>

(***************************************************************************)
(* The fan-out of one fetch cycle                                          *)
(***************************************************************************)
\* the per-run fetch of run r ends with outcome "ok", "http" or "net"
FetchRunEnds(r, outcome) ==
    /\ fetchState.status = "fetching"
    /\ r \in DOMAIN fetchState.runs
    /\ fetchState.runs[r] = "pending"
    /\ LET runs2 == [fetchState.runs EXCEPT ![r] = outcome]
           results2 == ResultsAfter(fetchState.results, r, outcome,
                                    AllKeysOf(activeMetrics))
       IN  IF Rejects(outcome)
           THEN \* Promise.all rejects: the queryFn throws, no data is delivered
                /\ fetchState' = [status |-> "failed", runs |-> runs2,
                                  results |-> results2]
                /\ isLoading' = FALSE
                /\ UNCHANGED << metricsData, queryCache, lastMetricsDataRef,
                                chartDataByMetric, lastDelivered >>
           ELSE IF AllSettled(runs2)
           THEN \* Promise.all resolves: return results
                /\ fetchState' = [status |-> "settled", runs |-> runs2,
                                  results |-> results2]
                /\ metricsData' = MapOf(results2)
                /\ queryCache' = CachePut(queryCache,
                                          QueryKey(selectedRunIds, activeMetrics),
                                          MapOf(results2))
                /\ isLoading' = FALSE
                /\ Render(MapOf(results2), lastMetricsDataRef, selectedRunIds,
                          activeMetrics, xAxisKey)
                /\ Delivered(MapOf(results2))
           ELSE /\ fetchState' = [status |-> "fetching", runs |-> runs2,
                                  results |-> results2]
                /\ UNCHANGED << metricsData, isLoading, queryCache,
                                lastMetricsDataRef, chartDataByMetric, lastDelivered >>
    /\ UNCHANGED << selectedRunIds, activeMetrics, xAxisKey, serverData, mounted,
                    pinnedXValue, pinnedColor, hoveredXValue, layoutVars, pc, appVars >>

FetchRunOk(r) == FetchRunEnds(r, "ok")
FetchRunHttpError(r) == FetchRunEnds(r, "http")
FetchRunNetworkError(r) == FetchRunEnds(r, "net")

\* the query is fetched again for the same key (stale data on window focus or
\* reconnect, or a retry after a failure); the data of the key stays
Refetch ==
    /\ mounted
    /\ fetchState.status \in {"idle", "settled", "failed"}
    /\ fetchState' = StartFetch(selectedRunIds)
    /\ UNCHANGED << selectedRunIds, activeMetrics, xAxisKey, serverData, mounted,
                    metricsData, isLoading, queryCache, lastMetricsDataRef,
                    chartDataByMetric, pinnedXValue, pinnedColor, hoveredXValue, layoutVars,
                    lastDelivered, pc, appVars >>

\* a series of the given length; the sample at 1-based position nullAt is null
MkSeries(len, nullAt, base, stride) ==
    [i \in 1..len |-> IF i = nullAt THEN Null ELSE base + stride * (i - 1)]

(***************************************************************************)
(* CursorController: pin and hover                                         *)
(***************************************************************************)
Digits == <<"0", "1", "2", "3", "4", "5", "6", "7", "8", "9">>

\* String(val) for a non-negative integer, as its sequence of characters
RECURSIVE NumberToString(_)
NumberToString(n) ==
    IF n < 10 THEN <<Digits[n + 1]>>
    ELSE NumberToString(n \div 10) \o <<Digits[(n % 10) + 1]>>

DigitValue(c) == (CHOOSE d \in 1..10 : Digits[d] = c) - 1

\* Number(value) for a string of decimal digits
RECURSIVE StringToNumber(_)
StringToNumber(str) ==
    IF Len(str) = 1 THEN DigitValue(str[1])
    ELSE 10 * StringToNumber(SubSeq(str, 1, Len(str) - 1)) + DigitValue(str[Len(str)])

\* the option values of the pin select: '' and String(val) for val of xs
PinOptions(xs) == {<<>>} \cup {NumberToString(xs[j]) : j \in 1..Len(xs)}

\* mutant of SelectedPin: only the first character of the option is parsed
SelectedPin_FirstChar(value) ==
    IF value = <<>> THEN Null ELSE StringToNumber(<<value[1]>>)

\* onChange of the pin select:
\*   if (!value) setPinnedXValue(null)
\*   else setPinnedXValue(Number.isNaN(Number(value)) ? value : Number(value))
SelectedPin(value) == IF value = <<>> THEN Null ELSE StringToNumber(value)

\* mutant of PrevPinned: the lower bound check is off by one
PrevPinned_NoBound(xs, p, pinned) ==
    IF Len(xs) = 0 THEN pinned
    ELSE IF p < 0 THEN pinned
    ELSE IF p = 0 THEN xs[Len(xs)]
    ELSE xs[p]

\* onClick of the previous button (p is the 0-based pinnedIndex):
\*   if (xs.length === 0) return; if (pinnedIndex <= 0) return
\*   setPinnedXValue(xs[pinnedIndex - 1])
PrevPinned(xs, p, pinned) ==
    IF Len(xs) = 0 THEN pinned
    ELSE IF p <= 0 THEN pinned
    ELSE xs[p]

\* mutant of NextPinned: a pinned value that is not among xs is kept
NextPinned_StaleStays(xs, p, pinned) ==
    IF Len(xs) = 0 THEN pinned
    ELSE IF p = -1 THEN (IF pinned = Null THEN xs[1] ELSE pinned)
    ELSE IF p >= Len(xs) - 1 THEN pinned
    ELSE xs[p + 2]

\* onClick of the next button:
\*   if (xs.length === 0) return
\*   if (pinnedIndex === -1) { setPinnedXValue(xs[0]); return }
\*   if (pinnedIndex >= xs.length - 1) return
\*   setPinnedXValue(xs[pinnedIndex + 1])
NextPinned(xs, p, pinned) ==
    IF Len(xs) = 0 THEN pinned
    ELSE IF p = -1 THEN xs[1]
    ELSE IF p >= Len(xs) - 1 THEN pinned
    ELSE xs[p + 2]

PinFrame ==
    UNCHANGED << selectedRunIds, activeMetrics, xAxisKey, serverData, mounted,
                 metricsData, isLoading, fetchState, queryCache, lastMetricsDataRef,
                 chartDataByMetric, pinnedColor, hoveredXValue, layoutVars,
                 lastDelivered, pc, appVars >>

PinPrev ==
    /\ ControlsShown
    /\ pinnedXValue' = PrevPinned(xAxisValueOptions, pinnedIndex, pinnedXValue)
    /\ PinFrame

PinNext ==
    /\ ControlsShown
    /\ pinnedXValue' = NextPinned(xAxisValueOptions, pinnedIndex, pinnedXValue)
    /\ PinFrame

PinSelect(value) ==
    /\ ControlsShown
    /\ value \in PinOptions(xAxisValueOptions)
    /\ pinnedXValue' = SelectedPin(value)
    /\ PinFrame

\* orderedMetrics: the active metrics other than the x-axis key whose aligned
\* data is non-empty
OrderedMetrics(metrics, xk, cd) ==
    SelectSeq(metrics, LAMBDA m : m # xk /\ Len(EntryData(cd, m)) > 0)

orderedMetrics == OrderedMetrics(activeMetrics, xAxisKey, chartDataByMetric)

HoverFrame ==
    UNCHANGED << selectedRunIds, activeMetrics, xAxisKey, serverData, mounted,
                 metricsData, isLoading, fetchState, queryCache, lastMetricsDataRef,
                 chartDataByMetric, pinnedXValue, pinnedColor, layoutVars, lastDelivered, pc, appVars >>

\* LineChart onMouseMove with an activeLabel: the xValue of the point of that
\* chart nearest to the pointer
MouseMove(m, j) ==
    /\ ControlsShown
    /\ m \in Range(orderedMetrics)
    /\ j \in 1..Len(EntryData(chartDataByMetric, m))
    /\ hoveredXValue' = EntryData(chartDataByMetric, m)[j]["xValue"]
    /\ HoverFrame

\* mutant of MouseLeave: leaving a chart also clears the pin
MouseLeave_ClearsPin ==
    /\ ControlsShown
    /\ orderedMetrics # <<>>
    /\ hoveredXValue' = Null
    /\ pinnedXValue' = Null
    /\ UNCHANGED << selectedRunIds, activeMetrics, xAxisKey, serverData, mounted,
                    metricsData, isLoading, fetchState, queryCache,
                    lastMetricsDataRef, chartDataByMetric, pinnedColor, layoutVars,
                    lastDelivered, pc, appVars >>

\* LineChart onMouseLeave
MouseLeave ==
    /\ ControlsShown
    /\ orderedMetrics # <<>>
    /\ hoveredXValue' = Null
    /\ HoverFrame

\* onChange of the color input of the pinned line: setPinnedColor(value)
SetPinnedColor(c) ==
    /\ ControlsShown
    /\ pinnedColor' = c
    /\ UNCHANGED << selectedRunIds, activeMetrics, xAxisKey, serverData, mounted,
                    metricsData, isLoading, fetchState, queryCache,
                    lastMetricsDataRef, chartDataByMetric, pinnedXValue,
                    hoveredXValue, layoutVars, lastDelivered, pc, appVars >>

(***************************************************************************)
(* Width weights are JS numbers; the model computes them as exact          *)
(* fractions <<numerator, denominator>> in lowest terms, denominator > 0.  *)
(***************************************************************************)
Abs(n) == IF n < 0 THEN -n ELSE n

RECURSIVE GCD(_, _)
GCD(a, b) == IF b = 0 THEN a ELSE GCD(b, a % b)

Frac(n, d) ==
    LET s == IF d < 0 THEN -1 ELSE 1
        g == GCD(Abs(n), Abs(d))
    IN  << (s * n) \div g, (s * d) \div g >>

FInt(n) == << n, 1 >>
FAdd(a, b) == Frac(a[1] * b[2] + b[1] * a[2], a[2] * b[2])
FSub(a, b) == Frac(a[1] * b[2] - b[1] * a[2], a[2] * b[2])
FMul(a, b) == Frac(a[1] * b[1], a[2] * b[2])
FDiv(a, b) == Frac(a[1] * b[2], a[2] * b[1])
FLeq(a, b) == a[1] * b[2] <= b[1] * a[2]
FMin(a, b) == IF FLeq(a, b) THEN a ELSE b
FMax(a, b) == IF FLeq(a, b) THEN b ELSE a

\* widths.reduce((sum, w) => sum + w, 0)
RECURSIVE FSum(_)
FSum(ws) == IF ws = <<>> THEN FInt(0) ELSE FAdd(Head(ws), FSum(Tail(ws)))

(***************************************************************************)
(* LayoutEngine: rows, RowKey, RowSize                                     *)
(***************************************************************************)
\* const [defaultHeight] = useState(256)
defaultHeight == 256

\* const rowGapPx = 16
rowGapPx == 16

\* const minWeight = 0.5
minWeight == Frac(1, 2)

\* const minPanelWidth = 220
minPanelWidth == 220

\* Math.max(120, Math.min(600, startHeight + deltaY))
minRowHeight == 120
maxRowHeight == 600

\* normalizeRowSize(rowSizes[key], count)
normalizeRowSize(sizes, key, count) ==
    IF key \in DOMAIN sizes
    THEN [height |-> sizes[key].height,
          widths |-> IF Len(sizes[key].widths) = count THEN sizes[key].widths
                     ELSE [i \in 1..count |-> FInt(1)],
          singleWidth |-> sizes[key].singleWidth]
    ELSE [height |-> defaultHeight,
          widths |-> [i \in 1..count |-> FInt(1)],
          singleWidth |-> Undefined]

\* mutant of Rows: the loop stops before a last, shorter row
Rows_DropTail(ordered, cols) ==
    [k \in 1..(Len(ordered) \div cols) |->
        SubSeq(ordered, (k - 1) * cols + 1, k * cols)]

\* for (i = 0; i < orderedMetrics.length; i += columns) rows.push(slice(i, i + columns))
Rows(ordered, cols) ==
    [k \in 1..((Len(ordered) + cols - 1) \div cols) |->
        SubSeq(ordered, (k - 1) * cols + 1, Min(k * cols, Len(ordered)))]

rows == Rows(orderedMetrics, columns)

\* rowMetrics = row.filter((metric) => metric !== expandedChart)
RowMetrics(row, expanded) == SelectSeq(row, LAMBDA m : m # expanded)

\* rowKey = rowMetrics.join('||')
RECURSIVE RowKey(_)
RowKey(rowMetrics) ==
    IF rowMetrics = <<>> THEN ""
    ELSE IF Len(rowMetrics) = 1 THEN Head(rowMetrics)
    ELSE Head(rowMetrics) \o "||" \o RowKey(Tail(rowMetrics))

\* the RowSize a row is laid out with
RowSizeOf(row) ==
    normalizeRowSize(rowSizes, RowKey(RowMetrics(row, expandedChart)),
                     Len(RowMetrics(row, expandedChart)))

\* style={{ height: rowSize.height }} of the chart of panel index of a row
PanelHeight(row, index) == RowSizeOf(row).height

\* panelElement.getBoundingClientRect().width of the panel of a one-metric row:
\* flex: 0 0 singleWidth, with singleWidth the stored pixel width or else
\* defaultColumnWidth = calc((100% - (columns - 1) * rowGapPx) / columns);
\* the width of a panel of a longer row is not read by the move handler
PanelWidth(size, rowLength, cols, rowWidth) ==
    IF rowLength # 1 THEN 0
    ELSE IF size.singleWidth # Undefined THEN size.singleWidth
    ELSE (rowWidth - (cols - 1) * rowGapPx) \div cols

\* mutant of PutRowSize: the spread of prev is dropped
PutRowSize_NoSpread(sizes, key, size) == [k \in {key} |-> size]

\* setRowSizes((prev) => ({ ...prev, [rowKey]: size }))
PutRowSize(sizes, key, size) ==
    [k \in DOMAIN sizes \cup {key} |-> IF k = key THEN size ELSE sizes[k]]

\* mutant of MovedRowSize: the new height is not clamped
MovedRowSize_NoClamp(s, dx, dy) ==
    LET newHeight == s.startHeight + dy
    IN  IF s.rowLength = 1
        THEN [height |-> newHeight,
              widths |-> s.startWidths,
              singleWidth |-> Max(minPanelWidth,
                                  Min(s.rowWidth, s.startPanelWidth + dx))]
        ELSE LET deltaWeight == FMul(Frac(dx, s.rowWidth), s.totalWeight)
                 maxWeight == FSub(s.totalWeight,
                                   FMul(minWeight, FInt(s.rowLength - 1)))
                 nextWeight == FMin(FMax(FAdd(s.startWidths[s.index + 1],
                                              deltaWeight), minWeight),
                                    maxWeight)
                 remainingStart == FSub(s.totalWeight, s.startWidths[s.index + 1])
                 remainingNext == FSub(s.totalWeight, nextWeight)
                 even == FDiv(remainingNext, FInt(s.rowLength - 1))
             IN  [height |-> newHeight,
                  widths |->
                    [i \in 1..Len(s.startWidths) |->
                        IF i = s.index + 1 THEN nextWeight
                        ELSE IF FLeq(remainingStart, FInt(0)) THEN even
                        ELSE FMul(FDiv(s.startWidths[i], remainingStart),
                                  remainingNext)],
                  singleWidth |-> Undefined]

\* mutant of MovedRowSize: the other panels always share the remainder evenly
MovedRowSize_EvenAlways(s, dx, dy) ==
    LET newHeight == Max(minRowHeight, Min(maxRowHeight, s.startHeight + dy))
    IN  IF s.rowLength = 1
        THEN [height |-> newHeight,
              widths |-> s.startWidths,
              singleWidth |-> Max(minPanelWidth,
                                  Min(s.rowWidth, s.startPanelWidth + dx))]
        ELSE LET deltaWeight == FMul(Frac(dx, s.rowWidth), s.totalWeight)
                 maxWeight == FSub(s.totalWeight,
                                   FMul(minWeight, FInt(s.rowLength - 1)))
                 nextWeight == FMin(FMax(FAdd(s.startWidths[s.index + 1],
                                              deltaWeight), minWeight),
                                    maxWeight)
                 even == FDiv(FSub(s.totalWeight, nextWeight),
                              FInt(s.rowLength - 1))
             IN  [height |-> newHeight,
                  widths |-> [i \in 1..Len(s.startWidths) |->
                                IF i = s.index + 1 THEN nextWeight ELSE even],
                  singleWidth |-> Undefined]

\* onMouseMove of a resize drag: the RowSize stored for the pointer at
\* (startX + dx, startY + dy); s is the closure made by onMouseDown
MovedRowSize(s, dx, dy) ==
    LET newHeight == Max(minRowHeight, Min(maxRowHeight, s.startHeight + dy))
    IN  IF s.rowLength = 1
        THEN [height |-> newHeight,
              widths |-> s.startWidths,
              singleWidth |-> Max(minPanelWidth,
                                  Min(s.rowWidth, s.startPanelWidth + dx))]
        ELSE LET deltaWeight == FMul(Frac(dx, s.rowWidth), s.totalWeight)
                 maxWeight == FSub(s.totalWeight,
                                   FMul(minWeight, FInt(s.rowLength - 1)))
                 nextWeight == FMin(FMax(FAdd(s.startWidths[s.index + 1],
                                              deltaWeight), minWeight),
                                    maxWeight)
                 remainingStart == FSub(s.totalWeight, s.startWidths[s.index + 1])
                 remainingNext == FSub(s.totalWeight, nextWeight)
                 even == FDiv(remainingNext, FInt(s.rowLength - 1))
             IN  [height |-> newHeight,
                  widths |->
                    [i \in 1..Len(s.startWidths) |->
                        IF i = s.index + 1 THEN nextWeight
                        ELSE IF FLeq(remainingStart, FInt(0)) THEN even
                        ELSE FMul(FDiv(s.startWidths[i], remainingStart),
                                  remainingNext)],
                  singleWidth |-> Undefined]

LayoutFrame == UNCHANGED << viewVars, lastDrop >>

\* onClick of a Cols button
SetColumns(n) ==
    /\ ControlsShown
    /\ ~resize.active
    /\ columns' = n
    /\ UNCHANGED << expandedChart, rowSizes, resize, resizeMoves >>
    /\ LayoutFrame

\* onClick of the "Expand & settings" button of a panel
SetExpandedChart(m) ==
    /\ ControlsShown
    /\ ~resize.active
    /\ m \in Range(orderedMetrics)
    /\ m # expandedChart
    /\ expandedChart' = m
    /\ UNCHANGED << columns, rowSizes, resize, resizeMoves >>
    /\ LayoutFrame

\* onClick of the close button of the expanded chart
CloseExpandedChart ==
    /\ ControlsShown
    /\ ~resize.active
    /\ expandedChart \in Range(orderedMetrics)
    /\ expandedChart' = NoChart
    /\ UNCHANGED << columns, rowSizes, resize, resizeMoves >>
    /\ LayoutFrame

\* onMouseDown of the resize handle of panel index (0-based) of row ri; the
\* row element is rowWidth pixels wide
ResizeStart(ri, index, rowWidth) ==
    /\ ControlsShown
    /\ ~resize.active
    /\ resizeMoves < MaxMoves
    /\ ri \in 1..Len(rows)
    /\ index \in 0..(Len(RowMetrics(rows[ri], expandedChart)) - 1)
    /\ LET row == rows[ri]
           rowSize == RowSizeOf(row)
       IN  resize' = [active |-> TRUE,
                      rowKey |-> RowKey(RowMetrics(row, expandedChart)),
                      index |-> index,
                      rowLength |-> Len(row),
                      startHeight |-> rowSize.height,
                      startWidths |-> rowSize.widths,
                      totalWeight |-> FSum(rowSize.widths),
                      rowWidth |-> rowWidth,
                      startPanelWidth |-> PanelWidth(rowSize, Len(row), columns,
                                                     rowWidth),
                      pointer |-> <<>>]
    /\ UNCHANGED << columns, expandedChart, rowSizes, resizeMoves >>
    /\ LayoutFrame

\* mutant of ResizeMove: the deltas are applied to the RowSize stored by the
\* previous move instead of the snapshot of the drag start
ResizeMove_FromStored(dx, dy) ==
    /\ resize.active
    /\ resizeMoves < MaxMoves
    /\ LET cur == IF resize.rowKey \in DOMAIN rowSizes
                  THEN rowSizes[resize.rowKey]
                  ELSE [height |-> resize.startHeight, widths |-> resize.startWidths]
           s == [resize EXCEPT !.startHeight = cur.height, !.startWidths = cur.widths]
       IN  rowSizes' = PutRowSize(rowSizes, resize.rowKey, MovedRowSize(s, dx, dy))
    /\ resize' = [resize EXCEPT !.pointer = << dx, dy >>]
    /\ resizeMoves' = resizeMoves + 1
    /\ UNCHANGED << columns, expandedChart >>
    /\ LayoutFrame

\* the window mousemove listener of the drag, with the pointer at
\* (startX + dx, startY + dy)
ResizeMove(dx, dy) ==
    /\ resize.active
    /\ resizeMoves < MaxMoves
    /\ rowSizes' = PutRowSize(rowSizes, resize.rowKey, MovedRowSize(resize, dx, dy))
    /\ resize' = [resize EXCEPT !.pointer = << dx, dy >>]
    /\ resizeMoves' = resizeMoves + 1
    /\ UNCHANGED << columns, expandedChart >>
    /\ LayoutFrame

\* mutant of ResizeEnd: the release restores the snapshot of the drag start
ResizeEnd_Rollback ==
    /\ resize.active
    /\ resize' = NoResize
    /\ rowSizes' = PutRowSize(rowSizes, resize.rowKey,
                              [height |-> resize.startHeight,
                               widths |-> resize.startWidths,
                               singleWidth |-> Undefined])
    /\ UNCHANGED << columns, expandedChart, resizeMoves >>
    /\ LayoutFrame

\* the window mouseup listener of the drag: both listeners are removed
ResizeEnd ==
    /\ resize.active
    /\ resize' = NoResize
    /\ UNCHANGED << columns, expandedChart, rowSizes, resizeMoves >>
    /\ LayoutFrame

(***************************************************************************)
(* ReorderController                                                       *)
(***************************************************************************)
\* ordered.indexOf(m): 0-based, -1 when absent
IndexOf(s, m) ==
    IF \E j \in 1..Len(s) : s[j] = m
    THEN (CHOOSE j \in 1..Len(s) : s[j] = m /\ \A i \in 1..(j - 1) : s[i] # m) - 1
    ELSE -1

\* next.splice(i, 1)
RemoveAt(s, i) == SubSeq(s, 1, i) \o SubSeq(s, i + 2, Len(s))

\* next.splice(i, 0, m)
InsertAt(s, i, m) == SubSeq(s, 1, Min(i, Len(s))) \o << m >>
                     \o SubSeq(s, Min(i, Len(s)) + 1, Len(s))

\* mutant of reorderMetrics: the two metrics trade places
reorderMetrics_Swap(metrics, xk, dragMetric, targetMetric) ==
    LET ordered == Without(metrics, xk)
    IN  IF dragMetric = targetMetric
           \/ IndexOf(ordered, dragMetric) = -1
           \/ IndexOf(ordered, targetMetric) = -1
        THEN metrics
        ELSE [j \in 1..Len(ordered) |->
                IF ordered[j] = dragMetric THEN targetMetric
                ELSE IF ordered[j] = targetMetric THEN dragMetric
                ELSE ordered[j]]

\* mutant of reorderMetrics: no early return when an index is -1, so that
\* splice(-1, 1) removes the last metric and splice(-1, 0, m) inserts before
\* the last one
reorderMetrics_NoIndexGuard(metrics, xk, dragMetric, targetMetric) ==
    LET ordered == Without(metrics, xk)
        fromIndex == IndexOf(ordered, dragMetric)
        toIndex == IndexOf(ordered, targetMetric)
        from == IF fromIndex = -1 THEN Len(ordered) - 1 ELSE fromIndex
        removed == RemoveAt(ordered, from)
        to == IF toIndex = -1 THEN Max(Len(removed) - 1, 0) ELSE toIndex
    IN  IF dragMetric = targetMetric THEN metrics
        ELSE InsertAt(removed, to, dragMetric)

\* reorderMetrics: the list given to setActiveMetrics, or the active list as
\* it is when the function returns early
reorderMetrics(metrics, xk, dragMetric, targetMetric) ==
    LET ordered == Without(metrics, xk)
        fromIndex == IndexOf(ordered, dragMetric)
        toIndex == IndexOf(ordered, targetMetric)
    IN  IF dragMetric = targetMetric THEN metrics
        ELSE IF fromIndex = -1 \/ toIndex = -1 THEN metrics
        ELSE InsertAt(RemoveAt(ordered, fromIndex), toIndex, dragMetric)

\* onDrop of a panel: if (dragMetric) reorderMetrics(dragMetric, metric);
\* dragMetric is the text of the drag, the metric of a panel or any other text
Drop(dragMetric, targetMetric) ==
    /\ ControlsShown
    /\ ~resize.active
    /\ targetMetric \in Range(orderedMetrics) \ {expandedChart}
    /\ dragMetric # ""
    /\ lastDrop' = [dragMetric |-> dragMetric, targetMetric |-> targetMetric,
                    before |-> activeMetrics]
    /\ activeMetrics' = reorderMetrics(activeMetrics, xAxisKey, dragMetric,
                                       targetMetric)
    /\ IF activeMetrics' # activeMetrics
       THEN KeyChanged(selectedRunIds, activeMetrics')
       ELSE UNCHANGED << mounted, metricsData, isLoading, fetchState, queryCache,
                         lastMetricsDataRef, chartDataByMetric, pinnedXValue, pinnedColor,
                         hoveredXValue, layoutState, lastDelivered >>
    /\ UNCHANGED << selectedRunIds, xAxisKey, serverData, resizeMoves, pc, appVars >>

(***************************************************************************)
(* The view specification: store, query, guard and cursor                  *)
(***************************************************************************)
\* the series of the two runs (Scenario A of the spec, scaled to MaxLen):
\* r1 logs MaxLen records, r2 one record less and no acc
ScenarioA ==
    [r \in RunIds |->
        IF r = "r1"
        THEN [loss |-> MkSeries(MaxLen, 0, 1, 1),
              acc |-> MkSeries(1, 0, 3, 1),
              _step |-> MkSeries(MaxLen, 0, 0, 10)]
        ELSE [loss |-> MkSeries(MaxLen - 1, 0, 5, 1),
              _step |-> MkSeries(MaxLen - 1, 0, 5, 10),
              iter |-> MkSeries(MaxLen - 1, 1, 8, 1)]]

ToggleableMetrics == {"loss", "acc"}

Init ==
    /\ selectedRunIds = <<>>
    /\ activeMetrics = <<>>
    /\ xAxisKey = "_step"
    /\ serverData = ScenarioA
    /\ mounted = FALSE
    /\ metricsData = NoData
    /\ isLoading = FALSE
    /\ fetchState = IdleFetch
    /\ queryCache = NoCache
    /\ lastMetricsDataRef = NoData
    /\ chartDataByMetric = <<>>
    /\ pinnedXValue = Null
    /\ pinnedColor = defaultPinnedColor
    /\ hoveredXValue = Null
    /\ columns = defaultColumns
    /\ expandedChart = NoChart
    /\ rowSizes = <<>>
    /\ resize = NoResize
    /\ lastDrop = NoDrop
    /\ resizeMoves = 0
    /\ runSets = <<>>
    /\ savedRunIds = <<>>
    /\ lastLoad = NoLoad
    /\ runsFetches = 0
    /\ deleting = NoDelete
    /\ lastDelete = NoDelete
    /\ lastDelivered = NoData
    /\ pc = "view"

\* store, query and guard
Next ==
    \/ \E r \in RunIds : ToggleRunSelection(r)
    \/ \E m \in ToggleableMetrics : ToggleMetric(m)
    \/ \E r \in RunIds : FetchRunOk(r)
    \/ \E r \in RunIds : FetchRunHttpError(r)
    \/ \E r \in RunIds : FetchRunNetworkError(r)
    \/ Refetch

Spec == Init /\ [][Next]_vars

\* store, query without failures, and the pin
NextPin ==
    \/ \E r \in RunIds : ToggleRunSelection(r)
    \/ \E m \in ToggleableMetrics : ToggleMetric(m)
    \/ \E k \in XKeys : SetXAxisKey(k)
    \/ \E r \in RunIds : FetchRunOk(r)
    \/ PinPrev
    \/ PinNext
    \/ \E value \in PinOptions(xAxisValueOptions) : PinSelect(value)

SpecPin == Init /\ [][NextPin]_vars

\* the colors chosen in the color input of the pinned line
PinColors == {defaultPinnedColor, "#ff0000"}

\* the cursor: pin controls, hover of the charts and the color of the pinned
\* line
NextHover ==
    \/ \E r \in RunIds : ToggleRunSelection(r)
    \/ \E m \in ToggleableMetrics : ToggleMetric(m)
    \/ \E r \in RunIds : FetchRunOk(r)
    \/ PinPrev
    \/ PinNext
    \/ \E value \in PinOptions(xAxisValueOptions) : PinSelect(value)
    \/ \E m \in ToggleableMetrics, j \in 1..MaxLen : MouseMove(m, j)
    \/ MouseLeave
    \/ \E c \in PinColors : SetPinnedColor(c)

SpecHover == Init /\ [][NextHover]_vars

(***************************************************************************)
(* Aligner specification: the inputs of the aligner are drawn from a       *)
(* bounded family of held aggregates; the single step applies the aligner. *)
(***************************************************************************)
\* one run's record: keys loss / _step present when their length is >= 0
RunRecord(fixed, lenLoss, nullLoss, lenX, nullX, base, xbase) ==
    LET keys == DOMAIN fixed
                \cup (IF lenLoss >= 0 THEN {"loss"} ELSE {})
                \cup (IF lenX >= 0 THEN {"_step"} ELSE {})
    IN  [k \in keys |->
            IF k = "loss" THEN MkSeries(lenLoss, nullLoss, base, 1)
            ELSE IF k = "_step" THEN MkSeries(lenX, nullX, xbase, 10)
            ELSE fixed[k]]

FixedR1 == [acc |-> <<3>>]
FixedR2 == [iter |-> <<Null, 8>>]

R1Records ==
    {RunRecord(FixedR1, ll, nl, lx, nx, 1, 0) :
        ll \in -1..MaxLen, nl \in 0..1, lx \in -1..MaxLen, nx \in 0..1}
R2Records ==
    {RunRecord(FixedR2, ll, 0, lx, 0, 5, 5) :
        ll \in -1..MaxLen, lx \in -1..MaxLen}

HeldAggregates ==
    {NoData}
    \cup {MapOf(<<>>)}
    \cup {MapOf([r \in {"r1"} |-> a]) : a \in R1Records}
    \cup {MapOf([r \in {"r2"} |-> b]) : b \in R2Records}
    \cup {MapOf([r \in RunIds |-> IF r = "r1" THEN ab[1] ELSE ab[2]]) :
            ab \in R1Records \X R2Records}

RunIdOrders == {<<"r1">>, <<"r2">>, <<"r1", "r2">>, <<"r2", "r1">>}
ActiveOptions == {<<"loss">>, <<"loss", "acc">>, <<"acc", "loss">>,
                  <<"_step", "loss">>, <<"iter", "acc">>}

InitAlign ==
    /\ selectedRunIds \in RunIdOrders
    /\ activeMetrics \in ActiveOptions
    /\ xAxisKey \in XKeys
    /\ serverData = <<>>
    /\ mounted = TRUE
    /\ metricsData \in HeldAggregates
    /\ isLoading = FALSE
    /\ fetchState = IdleFetch
    /\ queryCache = NoCache
    /\ lastMetricsDataRef = RefAfterRender(metricsData, NoData)
    /\ chartDataByMetric = <<>>
    /\ pinnedXValue = Null
    /\ pinnedColor = defaultPinnedColor
    /\ hoveredXValue = Null
    /\ columns = defaultColumns
    /\ expandedChart = NoChart
    /\ rowSizes = <<>>
    /\ resize = NoResize
    /\ lastDrop = NoDrop
    /\ resizeMoves = 0
    /\ runSets = <<>>
    /\ savedRunIds = <<>>
    /\ lastLoad = NoLoad
    /\ runsFetches = 0
    /\ deleting = NoDelete
    /\ lastDelete = NoDelete
    /\ lastDelivered = RefAfterRender(metricsData, NoData)
    /\ pc = "inputs"

Align ==
    /\ pc = "inputs"
    /\ pc' = "aligned"
    /\ Render(metricsData, lastMetricsDataRef, selectedRunIds, activeMetrics, xAxisKey)
    /\ UNCHANGED << selectedRunIds, activeMetrics, xAxisKey, serverData, mounted,
                    metricsData, isLoading, fetchState, queryCache, pinnedXValue, pinnedColor,
                    hoveredXValue, layoutVars, lastDelivered, appVars >>

NextAlign == Align

SpecAlign == InitAlign /\ [][NextAlign]_vars

(***************************************************************************)
(* Layout specification: a mounted view that has loaded three metrics of   *)
(* one run (Scenario C of the spec); the active list also holds the x-axis *)
(* key and a metric, val, the run has no series for.  Columns, expand /    *)
(* collapse and the resize drag.                                           *)
(***************************************************************************)
ScenarioC ==
    [r \in RunIds |->
        [loss |-> <<1>>, acc |-> <<3>>, reward |-> <<7>>, _step |-> <<0>>]]

LayoutMetrics == {"loss", "acc", "reward"}

\* the pixel widths of the row element and the pointer deltas <<dx, dy>> of
\* the drags that are tried
RowWidths == {600}
Deltas == {<< 200, 400 >>, << -100, -200 >>}

\* the view after runIds were selected, metrics were activated and the data
\* of that query arrived
LoadedView(runIds, metrics, xk) ==
    LET data == MapOf([r \in Range(runIds) |->
                          ServerResponse(r, AllKeysOf(metrics))])
    IN  /\ selectedRunIds = runIds
        /\ activeMetrics = metrics
        /\ xAxisKey = xk
        /\ mounted = TRUE
        /\ metricsData = data
        /\ isLoading = FALSE
        /\ fetchState = [status |-> "settled",
                         runs |-> [r \in Range(runIds) |-> "ok"],
                         results |-> data.runs]
        /\ queryCache = CachePut(NoCache, QueryKey(runIds, metrics), data)
        /\ lastMetricsDataRef = data
        /\ chartDataByMetric = ChartDataOf(data, runIds, metrics, xk)
        /\ pinnedXValue = Null
        /\ pinnedColor = defaultPinnedColor
        /\ hoveredXValue = Null
        /\ columns = defaultColumns
        /\ expandedChart = NoChart
        /\ rowSizes = <<>>
        /\ resize = NoResize
        /\ lastDrop = NoDrop
        /\ resizeMoves = 0
        /\ runSets = <<>>
        /\ savedRunIds = <<>>
        /\ lastLoad = NoLoad
        /\ runsFetches = 0
        /\ deleting = NoDelete
        /\ lastDelete = NoDelete
        /\ lastDelivered = data

InitLayout ==
    /\ serverData = ScenarioC
    /\ LoadedView(<<"r1">>, <<"loss", "_step", "acc", "val", "reward">>, "_step")
    /\ pc = "layout"

NextLayout ==
    \/ \E n \in 1..6 : SetColumns(n)
    \/ \E m \in LayoutMetrics : SetExpandedChart(m)
    \/ CloseExpandedChart
    \/ \E ri \in 1..3, index \in 0..2, rowWidth \in RowWidths :
          ResizeStart(ri, index, rowWidth)
    \/ \E d \in Deltas : ResizeMove(d[1], d[2])
    \/ ResizeEnd

SpecLayout == InitLayout /\ [][NextLayout]_vars

(***************************************************************************)
(* Narrow-window specification: the resize drag on rows of one, two and    *)
(* three panels whose row element is 600, 200 or 0 pixels wide (the last   *)
(* is read as 1 by "width || 1")                                           *)
(***************************************************************************)
NarrowRowWidths == {1, 200, 600}

InitNarrow ==
    /\ serverData = ScenarioC
    /\ LoadedView(<<"r1">>, <<"loss", "_step", "acc", "val", "reward">>, "_step")
    /\ pc = "narrow"

NextNarrow ==
    \/ \E n \in 1..3 : SetColumns(n)
    \/ \E ri \in 1..3, index \in 0..2, rowWidth \in NarrowRowWidths :
          ResizeStart(ri, index, rowWidth)
    \/ \E d \in Deltas : ResizeMove(d[1], d[2])
    \/ ResizeEnd

SpecNarrow == InitNarrow /\ [][NextNarrow]_vars

(***************************************************************************)
(* Key-collision specification: the run logs the metrics "a", "b" and      *)
(* "a||b", so that the row [a, b] and the row [a||b] have the same RowKey  *)
(***************************************************************************)
CollideMetrics == {"a", "b", "a||b"}

ScenarioKeys ==
    [r \in RunIds |->
        [k \in CollideMetrics \cup {"_step"} |->
            IF k = "_step" THEN <<0>> ELSE <<1>>]]

InitCollide ==
    /\ serverData = ScenarioKeys
    /\ LoadedView(<<"r1">>, <<"a", "b", "a||b">>, "_step")
    /\ pc = "collide"

NextCollide ==
    \/ \E n \in 1..3 : SetColumns(n)
    \/ \E ri \in 1..3, index \in 0..2, rowWidth \in RowWidths :
          ResizeStart(ri, index, rowWidth)
    \/ \E d \in Deltas : ResizeMove(d[1], d[2])
    \/ ResizeEnd

SpecCollide == InitCollide /\ [][NextCollide]_vars

(***************************************************************************)
(* Reorder specification: drops on the panels of a loaded view, with the   *)
(* x-axis key active or not                                                *)
(***************************************************************************)
OrderInits == {<<"loss", "acc", "reward">>, <<"_step", "loss", "acc", "reward">>}

\* the text of a drag: the metric of a panel, the x-axis key or a foreign text
DragTexts == LayoutMetrics \cup {"_step", "text"}

InitOrder ==
    /\ serverData = ScenarioC
    /\ \E metrics \in OrderInits : LoadedView(<<"r1">>, metrics, "_step")
    /\ pc = "order"

NextOrder ==
    \/ \E d \in DragTexts, t \in LayoutMetrics : Drop(d, t)
    \/ \E k \in XKeys : SetXAxisKey(k)

SpecOrder == InitOrder /\ [][NextOrder]_vars

(***************************************************************************)
(* Run-set specification: the selection is changed by the run selector,    *)
(* saved as run sets, and restored from them                               *)
(***************************************************************************)
SetNames == {"", "A", "B"}

NextSets ==
    \/ \E r \in RunIds : ToggleRunSelection(r)
    \/ ClearSelection
    \/ \E name \in SetNames : AddRunSet(name)
    \/ \E i \in 1..MaxSets, name \in SetNames : RenameRunSet(i, name)
    \/ \E i \in 1..MaxSets : DeleteRunSet(i)
    \/ \E i \in 1..MaxSets : LoadSet(i)

SpecSets == Init /\ [][NextSets]_vars

(***************************************************************************)
(* Refresh specification: selection, metrics and arriving data, with       *)
(* manual and timed refresh cycles                                         *)
(***************************************************************************)
NextRefresh ==
    \/ \E r \in RunIds : ToggleRunSelection(r)
    \/ \E m \in ToggleableMetrics : ToggleMetric(m)
    \/ \E r \in RunIds : FetchRunOk(r)
    \/ ManualRefresh
    \/ TimedRefresh

SpecRefresh == Init /\ [][NextRefresh]_vars

(***************************************************************************)
(* X-value specification: the view of SpecPin over runs whose x-axis       *)
(* series ascends, descends or repeats one value                           *)
(***************************************************************************)
\* <<base, stride>> of the _step series of r1
StepShapes == {<<0, 10>>, <<10 * (MaxLen - 1), -10>>, <<7, 0>>}

XScenarios ==
    {[r \in RunIds |->
        IF r = "r1"
        THEN [loss |-> MkSeries(MaxLen, 0, 1, 1),
              acc |-> MkSeries(1, 0, 3, 1),
              _step |-> MkSeries(MaxLen, 0, sh[1], sh[2])]
        ELSE ScenarioA[r]] : sh \in StepShapes}

InitXs ==
    /\ selectedRunIds = <<>>
    /\ activeMetrics = <<>>
    /\ xAxisKey = "_step"
    /\ serverData \in XScenarios
    /\ mounted = FALSE
    /\ metricsData = NoData
    /\ isLoading = FALSE
    /\ fetchState = IdleFetch
    /\ queryCache = NoCache
    /\ lastMetricsDataRef = NoData
    /\ chartDataByMetric = <<>>
    /\ pinnedXValue = Null
    /\ pinnedColor = defaultPinnedColor
    /\ hoveredXValue = Null
    /\ columns = defaultColumns
    /\ expandedChart = NoChart
    /\ rowSizes = <<>>
    /\ resize = NoResize
    /\ lastDrop = NoDrop
    /\ resizeMoves = 0
    /\ runSets = <<>>
    /\ savedRunIds = <<>>
    /\ lastLoad = NoLoad
    /\ runsFetches = 0
    /\ deleting = NoDelete
    /\ lastDelete = NoDelete
    /\ lastDelivered = NoData
    /\ pc = "xs"

NextXs ==
    \/ \E r \in RunIds : ToggleRunSelection(r)
    \/ \E m \in ToggleableMetrics : ToggleMetric(m)
    \/ \E k \in XKeys : SetXAxisKey(k)
    \/ \E r \in RunIds : FetchRunOk(r)
    \/ PinNext

SpecXs == InitXs /\ [][NextXs]_vars

(***************************************************************************)
(* List specification: every operation that rewrites activeMetrics or      *)
(* selectedRunIds, from the empty lists of a first start                   *)
(***************************************************************************)
\* the metrics of a group that pass the search box, in the sorted order of
\* availableMetrics
MetricGroups == {<<"acc", "loss">>, <<"loss">>}

\* a selection of every run is saved as a run set while no run set exists
SaveFirstRunSet ==
    /\ runSets = <<>>
    /\ Range(selectedRunIds) = RunIds
    /\ AddRunSet("A")

NextLists ==
    \/ \E r \in RunIds : ToggleRunSelection(r)
    \/ ClearSelection
    \/ SaveFirstRunSet
    \/ LoadSet(1)
    \/ \E m \in ToggleableMetrics : ToggleMetric(m)
    \/ \E metrics \in MetricGroups : SelectAllInGroup(metrics)
    \/ ClearMetrics
    \/ \E d \in ToggleableMetrics : \E t \in ToggleableMetrics \ {d} : Drop(d, t)
    \/ \E r \in RunIds : FetchRunOk(r)

SpecLists == Init /\ [][NextLists]_vars

(***************************************************************************)
(* Delete specification: one run is deleted from the run selector while    *)
(* runs are toggled, metrics are toggled and data arrives; a run that was  *)
(* deleted is no longer listed, so it is not toggled again                 *)
(***************************************************************************)
NextDelete ==
    \/ \E r \in RunIds \ {lastDelete.runId} : ToggleRunSelection(r)
    \/ \E m \in ToggleableMetrics : ToggleMetric(m)
    \/ \E r \in RunIds : FetchRunOk(r)
    \/ \E r \in RunIds : lastDelete = NoDelete /\ DeleteStart(r)
    \/ DeleteOk
    \/ DeleteFailed

SpecDelete == Init /\ [][NextDelete]_vars

(***************************************************************************)
(* Claims about the aligner (checked under SpecAlign)                      *)
(***************************************************************************)
SetMax(S) == CHOOSE x \in S : \A y \in S : y <= x
SetMin(S) == CHOOSE x \in S : \A y \in S : x <= y

\* the runs of runIds that have a raw series for metric m in the held aggregate
RunsWithSeries(m) ==
    {r \in Range(selectedRunIds) : HasSeries(stableMetricsData, r, m)}

RawLen(r, m) ==
    IF HasSeries(stableMetricsData, r, m)
    THEN Len(stableMetricsData.runs[r][m]) ELSE 0

ExpectedLen(m) ==
    IF RunsWithSeries(m) = {} THEN 0
    ELSE SetMax({RawLen(r, m) : r \in RunsWithSeries(m)})

AlignedMetrics == Range(activeMetrics) \ {xAxisKey}

\* C1 is stated with the layout model below.

\* C2 (length invariant): for every active metric m other than the x-axis key,
\* the aligned sequence of m has length max over the runs of runIds of the
\* length of the run's raw series for m, and 0 when no run has such a series.
C2_LengthInvariant ==
    pc = "aligned" =>
        \A m \in AlignedMetrics :
            /\ stableMetricsData.kind = "map" => HasEntry(chartDataByMetric, m)
            /\ Len(EntryData(chartDataByMetric, m)) = ExpectedLen(m)

\* two runs with raw series of different positive lengths were aligned
C2_Witness ==
    /\ pc = "aligned"
    /\ "loss" \in AlignedMetrics
    /\ RunsWithSeries("loss") = RunIds
    /\ RawLen("r1", "loss") = 1
    /\ RawLen("r2", "loss") = MaxLen
    /\ Len(EntryData(chartDataByMetric, "loss")) = MaxLen

\* C3 (padding invariant): for a run r of runIds whose raw series for m has
\* length L, every aligned point at index i >= L has point[r] = null (the last
\* value is not repeated) and every aligned point at index i < L carries the
\* raw sample raw[r][m][i].
C3_PaddingInvariant ==
    pc = "aligned" =>
        \A m \in AlignedMetrics :
            \A r \in RunsWithSeries(m) :
                \A j \in 1..Len(EntryData(chartDataByMetric, m)) :
                    EntryData(chartDataByMetric, m)[j][r] =
                        IF j <= RawLen(r, m)
                        THEN stableMetricsData.runs[r][m][j]
                        ELSE Null

\* a run with a shorter, non-empty series was padded with null after its end
C3_Witness ==
    /\ pc = "aligned"
    /\ "loss" \in AlignedMetrics
    /\ RunsWithSeries("loss") = RunIds
    /\ RawLen("r1", "loss") = 1
    /\ stableMetricsData.runs["r1"]["loss"][1] # Null
    /\ Len(EntryData(chartDataByMetric, "loss")) = MaxLen
    /\ EntryData(chartDataByMetric, "loss")[MaxLen]["r1"] = Null
    /\ EntryData(chartDataByMetric, "loss")[MaxLen]["r2"] # Null

\* the 1-based positions in runIds of the runs whose x-axis sample at index i
\* is a number
RunsWithXAt(i) ==
    {j \in 1..Len(selectedRunIds) :
        SampleAt(stableMetricsData, selectedRunIds[j], xAxisKey, i)
            \notin {Null, Undefined}}

\* C4 (x-resolution): xValue at index i is the x-axis sample at i of the first
\* run, in runIds order, for which that sample is defined; it is the raw index
\* i only when no run of runIds has a defined x-axis sample at i.
C4_XResolution ==
    pc = "aligned" =>
        \A e \in Range(chartDataByMetric) :
            \A j \in 1..Len(e.data) :
                e.data[j]["xValue"] =
                    IF RunsWithXAt(j - 1) = {} THEN j - 1
                    ELSE SampleAt(stableMetricsData,
                                  selectedRunIds[SetMin(RunsWithXAt(j - 1))],
                                  xAxisKey, j - 1)

(***************************************************************************)
(* Claims about the guard and the fetch cycle (checked under Spec)         *)
(***************************************************************************)
\* C5 (StaleDataGuard): after any sequence of results given to the comparison
\* view, the data read by the aligner and by the consumers after it is the
\* most recently given non-empty result.
C5_StaleDataGuard ==
    (mounted /\ NonEmpty(lastDelivered)) =>
        /\ stableMetricsData = lastDelivered
        /\ chartDataByMetric = ChartDataOf(lastDelivered, selectedRunIds,
                                           activeMetrics, xAxisKey)

\* C5 within one mounted instance of the view: a non-empty result replaces the
\* held value, an empty or absent result keeps it, and a freshly mounted
\* instance holds nothing.
C5_WithinOneMount ==
    /\ [](mounted =>
            chartDataByMetric = ChartDataOf(stableMetricsData, selectedRunIds,
                                            activeMetrics, xAxisKey))
    /\ [][mounted' =>
            stableMetricsData' =
                IF NonEmpty(metricsData') THEN metricsData'
                ELSE IF mounted THEN stableMetricsData
                ELSE NoData]_vars

FailedRuns == {r \in DOMAIN fetchState.runs : fetchState.runs[r] \in {"http", "net"}}
OkRuns == {r \in DOMAIN fetchState.runs : fetchState.runs[r] = "ok"}

C10_LoadingOnlyBeforeFirstData == LoadingShown => ~everHeld

(***************************************************************************)
(* Claims about the cursor (checked under SpecPin)                         *)
(***************************************************************************)
\* C6 (pin navigation): with p the index of pinned in xs (-1 if unset), prev()
\* changes nothing when p <= 0 and else sets pinned to xs[p-1]; next() changes
\* nothing when xs is empty, sets pinned to xs[0] when p = -1, changes nothing
\* when p >= len(xs)-1 and else sets pinned to xs[p+1]; the index after prev()
\* is never below 0 and after next() never above len(xs)-1.
C6_PinNavigation ==
    [][LET xs == xAxisValueOptions
           p == pinnedIndex
           q == PinnedIndex(xs, pinnedXValue')
       IN  /\ PinPrev =>
                IF p <= 0 THEN pinnedXValue' = pinnedXValue
                ELSE pinnedXValue' = xs[(p - 1) + 1] /\ q = p - 1 /\ q >= 0
           /\ PinNext =>
                IF Len(xs) = 0 THEN pinnedXValue' = pinnedXValue
                ELSE IF p = -1 THEN pinnedXValue' = xs[0 + 1] /\ q = 0
                ELSE IF p >= Len(xs) - 1 THEN pinnedXValue' = pinnedXValue
                ELSE pinnedXValue' = xs[(p + 1) + 1] /\ q = p + 1 /\ q <= Len(xs) - 1
      ]_vars

\* the pin stands on the last of at least two x values
C6_Witness ==
    /\ ControlsShown
    /\ Len(xAxisValueOptions) >= 2
    /\ pinnedIndex = Len(xAxisValueOptions) - 1

\* C7 as stated: pinned is null or a member of the current xs in every state.
C7_PinnedMember ==
    pinnedXValue = Null \/ pinnedXValue \in Range(xAxisValueOptions)

\* C7 as amended: every change of pinned sets it to null or to a member of the
\* xs of the moment; metric toggles, x-axis-key changes, run-set changes and
\* new data leave pinned as it is while the view stays mounted, so pinned may
\* be a stale value that is no member of the current xs.
C7_Amended ==
    [][/\ pinnedXValue' # pinnedXValue =>
            pinnedXValue' = Null \/ pinnedXValue' \in Range(xAxisValueOptions)
       /\ (mounted' /\ xAxisValueOptions' # xAxisValueOptions) =>
            pinnedXValue' = pinnedXValue
      ]_vars

\* a stale pin: pinned is set and no member of the current, non-empty xs
C7_Witness ==
    /\ ControlsShown
    /\ pinnedXValue # Null
    /\ xAxisValueOptions # <<>>
    /\ pinnedXValue \notin Range(xAxisValueOptions)

(***************************************************************************)
(* Claims about the row layout (checked under SpecLayout)                  *)
(***************************************************************************)
\* C1 (weight conservation): after every move of a multi-panel width resize,
\* in any reachable layout state, the sum of the width weights stored for the
\* row equals the sum of the weights captured at drag start.
C1_WeightConservation ==
    (resize.active /\ resize.pointer # <<>> /\ resize.rowLength # 1) =>
        FSum(rowSizes[resize.rowKey].widths) = resize.totalWeight

(***************************************************************************)
(* Claims about the reorder (checked under SpecOrder)                      *)
(***************************************************************************)
\* C8 (reorder): a drop of draggedMetric on targetMetric, both in the display
\* order (the active metrics without the x-axis key) and different, puts
\* draggedMetric at the index targetMetric had before the drop and keeps the
\* relative order of all other metrics.
C8_Reorder ==
    [][\A d \in DragTexts, t \in LayoutMetrics :
          LET before == Without(activeMetrics, xAxisKey)
              after == Without(activeMetrics', xAxisKey)
          IN  (/\ Drop(d, t)
               /\ d # t
               /\ d \in Range(before)
               /\ t \in Range(before))
              => /\ IndexOf(after, d) = IndexOf(before, t)
                 /\ Without(after, d) = Without(before, d)
      ]_vars

\* Scenario C: acc was dropped on loss in [loss, acc, reward]
C8_Witness ==
    /\ lastDrop = [dragMetric |-> "acc", targetMetric |-> "loss",
                   before |-> <<"loss", "acc", "reward">>]
    /\ activeMetrics = <<"acc", "loss", "reward">>

(***************************************************************************)
(* Claims about the guard across a deselection (checked under Spec)        *)
(***************************************************************************)
\* C11: after a non-empty aggregate was held, deselecting every run and then
\* selecting a run again leaves the consumers reading the previously held
\* aggregate until a new non-empty result arrives.
C11_GuardSurvivesDeselect ==
    [][(~mounted /\ mounted' /\ NonEmpty(lastDelivered)) =>
            stableMetricsData' = lastDelivered']_vars

(***************************************************************************)
(* More claims about the row layout (checked under SpecLayout)             *)
(***************************************************************************)
RECURSIVE Flatten(_)
Flatten(ss) == IF ss = <<>> THEN <<>> ELSE Head(ss) \o Flatten(Tail(ss))

\* s is t with some elements left out, in the same order
RECURSIVE IsSubSeq(_, _)
IsSubSeq(s, t) ==
    IF s = <<>> THEN TRUE
    ELSE IF t = <<>> THEN FALSE
    ELSE IF Head(s) = Head(t) THEN IsSubSeq(Tail(s), Tail(t))
    ELSE IsSubSeq(s, Tail(t))

\* C12 (row partition): the displayed metrics are exactly the active metrics,
\* in order, that are not the x-axis key and have non-empty aligned data; the
\* rows split them in order, every row but the last holds exactly columns
\* metrics, the last row holds between 1 and columns, the rows concatenated
\* give the displayed list, and columns is in 1..6.
C12_RowPartition ==
    ControlsShown =>
        /\ Range(orderedMetrics) =
              {m \in Range(activeMetrics) :
                  m # xAxisKey /\ Len(EntryData(chartDataByMetric, m)) > 0}
        /\ IsSubSeq(orderedMetrics, activeMetrics)
        /\ Flatten(rows) = orderedMetrics
        /\ \A k \in 1..(Len(rows) - 1) : Len(rows[k]) = columns
        /\ Len(rows) > 0 => Len(rows[Len(rows)]) \in 1..columns
        /\ columns \in 1..6

\* a full row and a shorter last row: three displayed metrics in
\* two columns, with the x-axis key and a metric without data left out
C12_Witness ==
    /\ ControlsShown
    /\ columns = 2
    /\ Len(rows) = 2
    /\ Len(rows[1]) = 2
    /\ Len(rows[2]) = 1
    /\ xAxisKey \in Range(activeMetrics)
    /\ \E m \in Range(activeMetrics) \ {xAxisKey} :
          Len(EntryData(chartDataByMetric, m)) = 0

\* the weights stored for the row of the drag in progress
DragWidths == rowSizes[resize.rowKey].widths

\* a move of the drag in progress was handled by the multi-panel branch
MultiPanelMoved == resize.active /\ resize.pointer # <<>> /\ resize.rowLength # 1

\* C13 (redistribution): after a multi-panel move with remainingStart =
\* totalWeight - startWidths[idx] > 0 every non-dragged panel j has weight
\* startWidths[j] * (totalWeight - nextWeight) / remainingStart, so the ratios
\* between the non-dragged panels are those of the drag start; with
\* remainingStart <= 0 every non-dragged panel has an even share of
\* totalWeight - nextWeight.
C13_Redistribution ==
    MultiPanelMoved =>
        LET w == resize.startWidths
            idx == resize.index + 1
            T == resize.totalWeight
            others == (1..Len(w)) \ {idx}
            remainingStart == FSub(T, w[idx])
            remainingNext == FSub(T, DragWidths[idx])
        IN  /\ Len(DragWidths) = Len(w)
            /\ \A j \in others :
                 IF ~FLeq(remainingStart, FInt(0))
                 THEN /\ DragWidths[j] = FDiv(FMul(w[j], remainingNext),
                                              remainingStart)
                      /\ \A k \in others :
                           FMul(DragWidths[j], w[k]) = FMul(DragWidths[k], w[j])
                 ELSE DragWidths[j] = FDiv(remainingNext, FInt(Len(w) - 1))

\* Scenario B: panel 0 of a row with weights [1, 1, 1] was dragged to 2.0
C13_Witness ==
    /\ MultiPanelMoved
    /\ resize.startWidths = << FInt(1), FInt(1), FInt(1) >>
    /\ resize.index = 0
    /\ DragWidths = << FInt(2), Frac(1, 2), Frac(1, 2) >>

\* a move of the drag in progress was handled
Moved == resize.active /\ resize.pointer # <<>>

\* C14 (height clamp): every resize move stores the row height
\* clamp(startHeight + dy, 120, 600); every stored row height and every height
\* a row is laid out with is within [120, 600], and all panels of a row have
\* the one height of the row.
C14_HeightClamp ==
    /\ Moved =>
          rowSizes[resize.rowKey].height =
              IF resize.startHeight + resize.pointer[2] < 120 THEN 120
              ELSE IF resize.startHeight + resize.pointer[2] > 600 THEN 600
              ELSE resize.startHeight + resize.pointer[2]
    /\ \A k \in DOMAIN rowSizes : rowSizes[k].height \in 120..600
    /\ ControlsShown =>
          \A ri \in 1..Len(rows) :
              \A i, j \in 0..(Len(RowMetrics(rows[ri], expandedChart)) - 1) :
                  /\ PanelHeight(rows[ri], i) \in 120..600
                  /\ PanelHeight(rows[ri], i) = PanelHeight(rows[ri], j)

\* a move clamped at the lower limit was followed by a drag whose move
\* stays within the limits
C14_Witness ==
    /\ Moved
    /\ resize.startHeight = 120
    /\ resize.pointer[2] = 400
    /\ rowSizes[resize.rowKey].height = 520
    /\ Len(resize.startWidths) >= 2

\* C15 (single-panel width): after every move of a drag on a row of exactly
\* one panel, the stored singleWidth is clamp(startWidth + dx, 220, rowWidth)
\* and lies within [220, rowWidth], whatever the pixel width of the row.
C15_SingleWidth ==
    (Moved /\ resize.rowLength = 1) =>
        /\ rowSizes[resize.rowKey].singleWidth >= 220
        /\ rowSizes[resize.rowKey].singleWidth <= resize.rowWidth

\* the part of C15 the code keeps: the lower limit, and the upper limit for a
\* row that is at least 220 pixels wide
C15_WideRow ==
    (Moved /\ resize.rowLength = 1) =>
        /\ rowSizes[resize.rowKey].singleWidth >= 220
        /\ resize.rowWidth >= 220 =>
              rowSizes[resize.rowKey].singleWidth <= resize.rowWidth

\* C16 (dragged-weight clamp): after every move of a multi-panel drag the
\* dragged panel's weight lies in [0.5, T - 0.5 * (n - 1)], with T the total
\* weight at the start of the drag and n the length of the weight vector.
C16_DraggedClamp ==
    MultiPanelMoved =>
        LET n == Len(DragWidths)
            next == DragWidths[resize.index + 1]
        IN  /\ FLeq(minWeight, next)
            /\ FLeq(next, FSub(resize.totalWeight, FMul(minWeight, FInt(n - 1))))

\* the part of C16 the code keeps: the limits hold when no metric of the row
\* is shown as the expanded chart
C16_FullRow ==
    (MultiPanelMoved /\ Len(DragWidths) = resize.rowLength) =>
        LET n == Len(DragWidths)
            next == DragWidths[resize.index + 1]
        IN  /\ FLeq(minWeight, next)
            /\ FLeq(next, FSub(resize.totalWeight, FMul(minWeight, FInt(n - 1))))

\* the default RowSize of a row of count panels
DefaultRowSize(count) ==
    [height |-> defaultHeight, widths |-> [i \in 1..count |-> FInt(1)]]

\* the size stored under the RowKey of row has a widths length other than the
\* row's number of panels
Mismatch(row) ==
    LET key == RowKey(RowMetrics(row, expandedChart))
    IN  /\ key \in DOMAIN rowSizes
        /\ Len(rowSizes[key].widths) # Len(RowMetrics(row, expandedChart))

\* C17 (resynthesis on mismatch): a row whose RowKey has no stored size, or a
\* stored size whose widths length differs from the row's number of panels,
\* is laid out with height = defaultHeight and every weight equal to 1.
C17_Resynthesis ==
    ControlsShown =>
        \A ri \in 1..Len(rows) :
            LET row == rows[ri]
                key == RowKey(RowMetrics(row, expandedChart))
                count == Len(RowMetrics(row, expandedChart))
            IN  (key \notin DOMAIN rowSizes \/ Mismatch(row)) =>
                    /\ RowSizeOf(row).height = DefaultRowSize(count).height
                    /\ RowSizeOf(row).widths = DefaultRowSize(count).widths

\* the part of C17 the code keeps: the weights are resynthesized, and a row
\* without a stored size has the default height
C17_WidthsOnly ==
    ControlsShown =>
        \A ri \in 1..Len(rows) :
            LET row == rows[ri]
                key == RowKey(RowMetrics(row, expandedChart))
                count == Len(RowMetrics(row, expandedChart))
            IN  /\ Mismatch(row) =>
                    /\ RowSizeOf(row).widths = DefaultRowSize(count).widths
                    /\ RowSizeOf(row).height = rowSizes[key].height
                /\ key \notin DOMAIN rowSizes =>
                    /\ RowSizeOf(row).height = DefaultRowSize(count).height
                    /\ RowSizeOf(row).widths = DefaultRowSize(count).widths

\* row ri of the next state has an ordered metric list that no row of this
\* state has
RowChanged(ri) == rows'[ri] \notin Range(rows)

\* C18 (customization is discarded on reflow): a row whose ordered metric
\* list changed in a step is laid out with the default RowSize after the step,
\* also when the new list is a composition that was customized earlier.
C18_DiscardOnReflow ==
    [][\A ri \in 1..Len(rows') :
          (ControlsShown /\ ControlsShown' /\ RowChanged(ri)) =>
              LET count == Len(RowMetrics(rows'[ri], expandedChart'))
              IN  /\ RowSizeOf(rows[ri])'.height = DefaultRowSize(count).height
                  /\ RowSizeOf(rows[ri])'.widths = DefaultRowSize(count).widths
                  /\ RowSizeOf(rows[ri])'.singleWidth = Undefined]_vars

\* the part of C18 the code keeps: a changed row whose composition has no
\* stored size is laid out with the default RowSize
C18_FirstLayout ==
    [][\A ri \in 1..Len(rows') :
          (/\ ControlsShown /\ ControlsShown' /\ RowChanged(ri)
           /\ RowKey(RowMetrics(rows'[ri], expandedChart')) \notin DOMAIN rowSizes') =>
              LET count == Len(RowMetrics(rows'[ri], expandedChart'))
              IN  /\ RowSizeOf(rows[ri])'.height = DefaultRowSize(count).height
                  /\ RowSizeOf(rows[ri])'.widths = DefaultRowSize(count).widths
                  /\ RowSizeOf(rows[ri])'.singleWidth = Undefined]_vars

\* a step of the pin controls: the select, the previous or the next button
PinStep ==
    \/ PinPrev
    \/ PinNext
    \/ \E value \in PinOptions(xAxisValueOptions) : PinSelect(value)

\* C19 (stale pin persists): pinned changes only through direct selection,
\* prev() or next(); a change of the active metrics, the x-axis key or the
\* selected runs, and the arrival of data, leave it as it is.
C19_StalePinPersists ==
    [][pinnedXValue' # pinnedXValue => PinStep]_vars

\* the part of C19 the code keeps: while the view stays mounted, pinned
\* changes only through the pin controls
C19_WhileMounted ==
    [][(pinnedXValue' # pinnedXValue /\ mounted') => PinStep]_vars

\* a pinned value that is no longer among the x-values of the select
C19_StalePin ==
    /\ ControlsShown
    /\ pinnedXValue # Null
    /\ pinnedIndex = -1

\* the xValues of the aligned sequence of metric m
XValuesOf(cd, m) == {EntryData(cd, m)[j]["xValue"] : j \in 1..Len(EntryData(cd, m))}

\* C20 (navigation domain): the list xs of the pin select and of prev() and
\* next() holds every xValue of the aligned sequence of every displayed
\* metric.
C20_NavigationDomain ==
    ControlsShown =>
        \A m \in Range(orderedMetrics) :
            XValuesOf(chartDataByMetric, m) \subseteq Range(xAxisValueOptions)

\* the part of C20 the code keeps: xs holds the xValues of the first entry of
\* chartDataByMetric, and only xValues of that entry
C20_FirstMetricOnly ==
    (ControlsShown /\ chartDataByMetric # <<>>) =>
        Range(xAxisValueOptions) =
            XValuesOf(chartDataByMetric, chartDataByMetric[1].metric)

\* C21 (run-set round trip): a click on a run set makes selectedRunIds the
\* selection that was saved as that set by addRunSet, with the same runs in
\* the same order, whatever the selection was before the click.
C21_RoundTrip ==
    lastLoad # NoLoad =>
        lastLoad.after = savedRunIds[lastLoad.id]

\* a set of two runs saved in the order r2, r1 was clicked while another
\* selection was current, and the click restored it
C21_Witness ==
    /\ lastLoad # NoLoad
    /\ lastLoad.after = <<"r2", "r1">>
    /\ lastLoad.before = <<"r1">>
    /\ selectedRunIds = <<"r2", "r1">>

\* a metrics fetch for the selected runs was just issued: every per-run fetch
\* of the cycle is pending
MetricsFetchIssued ==
    /\ fetchState.status = "fetching"
    /\ DOMAIN fetchState.runs = Range(selectedRunIds)
    /\ \A r \in DOMAIN fetchState.runs : fetchState.runs[r] = "pending"

\* C22 (refresh cycle): every refresh cycle, manual or timed, issues a new
\* metrics fetch for the selected runs.
C22_RefreshFetchesMetrics ==
    [][(runsFetches' # runsFetches /\ mounted) => MetricsFetchIssued']_vars

\* what the code does: a refresh cycle fetches the runs list and leaves the
\* metrics query, its data and the aligned charts as they are
C22_RefreshFetchesRunsOnly ==
    [][runsFetches' # runsFetches =>
          UNCHANGED << fetchState, metricsData, queryCache, chartDataByMetric >>]_vars

\* the first run of runIds has a null x-axis sample at index i and a later
\* run of runIds has a numeric one
NullThenNumeric(i) ==
    /\ selectedRunIds # <<>>
    /\ SampleAt(stableMetricsData, selectedRunIds[1], xAxisKey, i) = Null
    /\ \E j \in RunsWithXAt(i) : j > 1

\* C23 (null x sample): where the first run of runIds has a null x-axis
\* sample at index i and a later run has a numeric one, the aligned xValue at
\* i is the numeric sample of that later run, not the raw index.
C23_NullXSample ==
    pc = "aligned" =>
        \A e \in Range(chartDataByMetric) :
            \A j \in 1..Len(e.data) :
                NullThenNumeric(j - 1) =>
                    e.data[j]["xValue"] =
                        SampleAt(stableMetricsData,
                                 selectedRunIds[SetMin(RunsWithXAt(j - 1))],
                                 xAxisKey, j - 1)

\* what the code does in that case: the null sample of the first run is
\* found by the scan and replaced by the raw index
C23_RawIndex ==
    pc = "aligned" =>
        \A e \in Range(chartDataByMetric) :
            \A j \in 1..Len(e.data) :
                NullThenNumeric(j - 1) => e.data[j]["xValue"] = j - 1

\* run r has no sample of metric m in the held aggregate: it is absent from
\* the aggregate, or has no series or an empty series for m
NoDataFor(r, m) ==
    \/ ~HasSeries(stableMetricsData, r, m)
    \/ Len(stableMetricsData.runs[r][m]) = 0

\* C24 (null columns and run keys): every aligned point has exactly the keys
\* xValue and the runs of runIds; a run of runIds without data for the metric
\* or absent from the held aggregate is null at every index; a run that is
\* only in the held aggregate has no entry.
C24_RunKeys ==
    pc = "aligned" =>
        \A e \in Range(chartDataByMetric) :
            \A j \in 1..Len(e.data) :
                /\ DOMAIN e.data[j] = {"xValue"} \cup Range(selectedRunIds)
                /\ \A r \in Range(selectedRunIds) :
                      NoDataFor(r, e.metric) => e.data[j][r] = Null
                /\ \A r \in DOMAIN stableMetricsData.runs \ Range(selectedRunIds) :
                      r \notin DOMAIN e.data[j]

\* r2 is in runIds but not in the held aggregate, and the aligned sequence of
\* loss, as long as the series of r1, has a null for r2 at every index
C24_Witness ==
    /\ pc = "aligned"
    /\ selectedRunIds = <<"r1", "r2">>
    /\ stableMetricsData.kind = "map"
    /\ DOMAIN stableMetricsData.runs = {"r1"}
    /\ \E e \in Range(chartDataByMetric) :
          /\ e.metric = "loss"
          /\ Len(e.data) = MaxLen
          /\ \A j \in 1..Len(e.data) : e.data[j]["r2"] = Null

\* the xValues of all aligned points
AllXValues ==
    UNION {XValuesOf(chartDataByMetric, e.metric) : e \in Range(chartDataByMetric)}

\* C25 (pin x-value list): xs has no duplicates, is in ascending numeric
\* order (all its values are numbers), and each of its elements is the xValue
\* of some aligned point.
C25_SortedDistinct ==
    LET xs == xAxisValueOptions
    IN  /\ \A i, j \in 1..Len(xs) : i < j => xs[i] < xs[j]
        /\ Range(xs) \subseteq AllXValues

\* the points have the xValues 10, 0 in that order and xs is 0, 10
C25_Witness ==
    /\ ControlsShown
    /\ chartDataByMetric # <<>>
    /\ Len(chartDataByMetric[1].data) >= 2
    /\ chartDataByMetric[1].data[1]["xValue"] > chartDataByMetric[1].data[2]["xValue"]
    /\ Len(xAxisValueOptions) = Len(chartDataByMetric[1].data)

\* all points have the xValue 7 and xs has the one element 7
C25_WitnessRepeated ==
    /\ ControlsShown
    /\ chartDataByMetric # <<>>
    /\ Len(chartDataByMetric[1].data) >= 2
    /\ xAxisValueOptions = <<7>>

\* the per-run fetches of the current cycle that have not settled
PendingRuns == {r \in DOMAIN fetchState.runs : fetchState.runs[r] = "pending"}

\* C26 as stated (fan-out aggregation): no outcome of a cycle, aggregate or
\* failure, is observed while a per-run fetch of the cycle is still pending.
C26_NoEarlyOutcome ==
    fetchState.status \in {"settled", "failed"} => PendingRuns = {}

\* C26 as amended: a cycle starts all its per-run fetches at once; its
\* aggregate is given to the view only in the step in which the last per-run
\* fetch settles, under every order of the completions; a cycle that fails
\* (network error of a per-run fetch) fails at once and gives no aggregate.
C26_Amended ==
    /\ [](fetchState.status = "settled" => PendingRuns = {})
    /\ [][(fetchState.status # "fetching" /\ fetchState'.status = "fetching") =>
            /\ DOMAIN fetchState'.runs = Range(selectedRunIds')
            /\ \A r \in DOMAIN fetchState'.runs : fetchState'.runs[r] = "pending"]_vars
    /\ [][(/\ selectedRunIds' = selectedRunIds
           /\ activeMetrics' = activeMetrics
           /\ metricsData' # metricsData) =>
            /\ fetchState.status = "fetching"
            /\ fetchState'.status = "settled"
            /\ \A r \in DOMAIN fetchState'.runs : fetchState'.runs[r] # "pending"]_vars
    /\ [][(fetchState.status = "fetching" /\ fetchState'.status = "failed") =>
            metricsData' = metricsData]_vars

\* the second run of the cycle has completed, the first is pending, and no
\* data of the cycle has been given to the view
C26_Witness ==
    /\ selectedRunIds = <<"r1", "r2">>
    /\ fetchState.status = "fetching"
    /\ fetchState.runs["r2"] = "ok"
    /\ fetchState.runs["r1"] = "pending"
    /\ metricsData.kind = "undefined"
    /\ isLoading

\* C27 (drag commit): a drag in progress ends only by the release, which
\* leaves every RowSize as the last move stored it; while no drag is in
\* progress no step changes a RowSize; a move of a drag changes only the
\* RowSize of the dragged row, to the size computed from the drag-start
\* snapshot and the pointer.
C27_DragCommit ==
    [][/\ (resize.active /\ ~resize'.active) => (ResizeEnd /\ rowSizes' = rowSizes)
       /\ ~resize.active => rowSizes' = rowSizes
       /\ rowSizes' # rowSizes =>
            /\ resize'.active
            /\ resize'.pointer # <<>>
            /\ \A k \in DOMAIN rowSizes : k # resize.rowKey => rowSizes'[k] = rowSizes[k]
            /\ DOMAIN rowSizes' = DOMAIN rowSizes \cup {resize.rowKey}]_vars

\* a drag was released and the row keeps the height 600 that its last move
\* stored
C27_Witness ==
    /\ ~resize.active
    /\ resizeMoves >= 1
    /\ \E k \in DOMAIN rowSizes : rowSizes[k].height = 600

\* C28 (cross-chart x consistency): two displayed metrics have the same
\* xValue at every index that both aligned sequences have.
C28_CrossChartX ==
    \A e1, e2 \in Range(chartDataByMetric) :
        \A j \in 1..Min(Len(e1.data), Len(e2.data)) :
            e1.data[j]["xValue"] = e2.data[j]["xValue"]

\* two metrics with aligned sequences of different lengths are displayed
C28_Witness ==
    /\ pc = "aligned"
    /\ Len(chartDataByMetric) = 2
    /\ Len(chartDataByMetric[1].data) >= 1
    /\ Len(chartDataByMetric[2].data) > Len(chartDataByMetric[1].data)
    /\ Len(selectedRunIds) = 2
    /\ chartDataByMetric[2].data[1]["xValue"] # 0

\* the displayed metrics of row ri
ShownRow(ri) == RowMetrics(rows[ri], expandedChart)

\* C29 (RowKey identifies the ordered metric list of a row): two rows whose
\* ordered lists of displayed metrics differ have different RowKeys, and so
\* are never laid out from the same RowSize entry.
C29_RowKeyInjective ==
    ControlsShown =>
        \A ri, rj \in 1..Len(rows) :
            ShownRow(ri) # ShownRow(rj) => RowKey(ShownRow(ri)) # RowKey(ShownRow(rj))

\* C30 (hovered and pinned are independent): in a mounted view a pointer move
\* or leave changes only hovered, to an xValue of the charts on a move and to
\* null on a leave, and never pinned or pinnedColor; the pin select, prev()
\* and next() change only pinned and never hovered.
C30_HoverPinIndependent ==
    [][(mounted /\ mounted') =>
          /\ hoveredXValue' # hoveredXValue =>
                /\ pinnedXValue' = pinnedXValue
                /\ pinnedColor' = pinnedColor
                /\ hoveredXValue' = Null \/ hoveredXValue' \in AllXValues
                /\ UNCHANGED << chartDataByMetric, selectedRunIds, activeMetrics >>
          /\ pinnedXValue' # pinnedXValue =>
                /\ hoveredXValue' = hoveredXValue
                /\ pinnedColor' = pinnedColor
                /\ UNCHANGED << chartDataByMetric, selectedRunIds, activeMetrics >>]_vars

\* a value is pinned, another is hovered, and the pinned line has a color
\* that was chosen
C30_Witness ==
    /\ ControlsShown
    /\ pinnedXValue # Null
    /\ hoveredXValue # Null
    /\ hoveredXValue # pinnedXValue
    /\ pinnedColor # defaultPinnedColor

(***************************************************************************)
(* Claims about reorders that change nothing (checked under SpecOrder)     *)
(***************************************************************************)
\* the display order: the active metrics without the x-axis key
DisplayOrder == Without(activeMetrics, xAxisKey)

\* a reorder event that the claim calls a no-op
NoOpReorder(d, t) ==
    \/ d = t
    \/ d \notin Range(DisplayOrder)
    \/ t \notin Range(DisplayOrder)

\* C31 (reorder no-op): a reorder event whose draggedMetric equals
\* targetMetric, or in which either metric is not in the display order,
\* leaves the active metric list (and with it the display order) unchanged:
\* reorderMetrics gives the active list back for every such pair, and a drop
\* step with such a pair changes neither the active list nor the x-axis key.
C31_ReorderNoOp ==
    /\ [](\A d \in DragTexts, t \in DragTexts :
            NoOpReorder(d, t)
            => reorderMetrics(activeMetrics, xAxisKey, d, t) = activeMetrics)
    /\ [][(/\ lastDrop' # lastDrop
           /\ NoOpReorder(lastDrop'.dragMetric, lastDrop'.targetMetric))
          => /\ activeMetrics' = activeMetrics
             /\ xAxisKey' = xAxisKey
             /\ chartDataByMetric' = chartDataByMetric
      ]_vars

\* the x-axis key, active but not in the display order, was dropped on a
\* panel and the active list is the one before the drop
C31_Witness ==
    /\ lastDrop # NoDrop
    /\ lastDrop.dragMetric = "_step"
    /\ xAxisKey = "_step"
    /\ lastDrop.before = <<"_step", "loss", "acc", "reward">>
    /\ activeMetrics = lastDrop.before

(***************************************************************************)
(* Claims about the data ranges (checked under SpecAlign)                  *)
(***************************************************************************)
\* the non-null run values over all aligned points of one entry
RunValues(data) ==
    UNION {{data[j][key] : key \in DOMAIN data[j] \ {"xValue"}} : j \in 1..Len(data)}
    \ {Null}

HasRange(m) == \E j \in 1..Len(dataRanges) : dataRanges[j].metric = m

RangeOf(m) == dataRanges[CHOOSE j \in 1..Len(dataRanges) : dataRanges[j].metric = m]

\* C32 (data range): for every metric of the chart data, the range has min
\* and max equal to the smallest and the largest non-null run value over all
\* aligned points of the metric, xValue excluded; a metric whose run values
\* are all null (or that has no point) has no range entry, and no range
\* belongs to a metric without chart data.
C32_DataRange ==
    /\ \A j \in 1..Len(chartDataByMetric) :
          LET m == chartDataByMetric[j].metric
              vals == RunValues(chartDataByMetric[j].data)
          IN  /\ HasRange(m) <=> vals # {}
              /\ vals # {} => /\ RangeOf(m).min = SetMin(vals)
                              /\ RangeOf(m).max = SetMax(vals)
    /\ \A j \in 1..Len(dataRanges) : HasEntry(chartDataByMetric, dataRanges[j].metric)

\* two runs with different values and a null among them: the range spans
\* both runs, and its min is not the smallest xValue
C32_Witness ==
    /\ pc = "aligned"
    /\ HasRange("loss")
    /\ RangeOf("loss").min < RangeOf("loss").max
    /\ \E j \in 1..Len(EntryData(chartDataByMetric, "loss")) :
          LET point == EntryData(chartDataByMetric, "loss")[j]
          IN  /\ \E r \in DOMAIN point \ {"xValue"} : point[r] = Null
              /\ point["xValue"] < RangeOf("loss").min

\* a metric whose aligned points hold only nulls has no range
C32_WitnessAllNull ==
    /\ pc = "aligned"
    /\ HasEntry(chartDataByMetric, "loss")
    /\ Len(EntryData(chartDataByMetric, "loss")) > 0
    /\ ~HasRange("loss")

(***************************************************************************)
(* Claims about successive drags on one row (checked under SpecNarrow,     *)
(* where no chart is ever expanded)                                        *)
(***************************************************************************)
\* the RowSize entries written by the multi-panel branch of the move handler
MultiPanelKeys == {k \in DOMAIN rowSizes : rowSizes[k].singleWidth = Undefined}

\* C33 (minimum weight for every panel): after any sequence of multi-panel
\* resize drags on a row, every panel of the row, dragged or not, has weight
\* at least 0.5.
C33_MinWeightEveryPanel ==
    \A k \in MultiPanelKeys :
        \A i \in 1..Len(rowSizes[k].widths) : FLeq(minWeight, rowSizes[k].widths[i])

\* what the move handler does keep: the dragged panel of the drag in progress
\* has weight at least 0.5 when the row has as many panels as metrics
C33_DraggedPanel ==
    (MultiPanelMoved /\ expandedChart = NoChart)
    => FLeq(minWeight, DragWidths[resize.index + 1])

(***************************************************************************)
(* Claims about the metric set across a reorder (checked under SpecOrder)  *)
(***************************************************************************)
\* the number of occurrences of m in s
Count(s, m) == Cardinality({j \in 1..Len(s) : s[j] = m})

IsPermutation(s, t) ==
    /\ Len(s) = Len(t)
    /\ \A m \in Range(s) \cup Range(t) : Count(s, m) = Count(t, m)

\* C34 (reorder preserves the metric set): a reorder never adds or removes a
\* metric; the active metric list after any drop is a permutation of the
\* active metric list before it, whatever the current x-axis key is.
C34_ReorderPermutes ==
    [][lastDrop' # lastDrop => IsPermutation(activeMetrics', activeMetrics)]_vars

\* what the reorder does keep: the display order after a drop is a
\* permutation of the display order before it, and the active list is one
\* too when it does not hold the x-axis key
C34_DisplayOrderPermuted ==
    [][lastDrop' # lastDrop
       => /\ IsPermutation(Without(activeMetrics', xAxisKey),
                           Without(activeMetrics, xAxisKey))
          /\ (xAxisKey \notin Range(activeMetrics)
              => IsPermutation(activeMetrics', activeMetrics))]_vars

(***************************************************************************)
(* Claims about the path of a drag (checked under SpecLayout)              *)
(***************************************************************************)
\* C35 (drag path independence): within one drag session the RowSize stored
\* after a pointer move depends only on the drag-start snapshot and the
\* current pointer position: it is the RowSize a single move from the
\* snapshot to that position stores, whatever moves came before, and a
\* further move to the position the pointer already has stores the same
\* height and widths again.
C35_PathIndependent ==
    /\ [](Moved => rowSizes[resize.rowKey]
                   = MovedRowSize([resize EXCEPT !.pointer = <<>>],
                                  resize.pointer[1], resize.pointer[2]))
    /\ [][(/\ resize.active
           /\ resize' = resize
           /\ resizeMoves' # resizeMoves)
          => rowSizes' = rowSizes]_vars

\* the second move of one drag session on a row that was never resized
\* before: the pointer came back above the start after any first move
C35_Witness ==
    /\ Moved
    /\ resizeMoves = 2
    /\ DOMAIN rowSizes = {resize.rowKey}
    /\ resize.startHeight = defaultHeight
    /\ resize.pointer = << -100, -200 >>
    /\ rowSizes[resize.rowKey].height = minRowHeight

(***************************************************************************)
(* Claims about the type of xValue (checked under SpecAlign)               *)
(***************************************************************************)
\* the 1-based positions in runIds of the runs whose x-axis series reaches
\* index i (the sample there is a number or null)
RunsReachingX(i) ==
    {j \in 1..Len(selectedRunIds) :
        SampleAt(stableMetricsData, selectedRunIds[j], xAxisKey, i) # Undefined}

\* C36 (xValue is always a number): for any held data, including x-axis
\* series that contain null samples or are shorter than the metric series,
\* the xValue of every aligned point is a number, never null or undefined:
\* it is the x-axis sample at i of the first run of runIds whose x-axis series
\* reaches i when that sample is a number, and the raw index i otherwise.
C36_XValueNumber ==
    pc = "aligned" =>
        \A e \in Range(chartDataByMetric) :
            \A j \in 1..Len(e.data) :
                LET x == e.data[j]["xValue"]
                    reach == RunsReachingX(j - 1)
                    sample == SampleAt(stableMetricsData,
                                       selectedRunIds[SetMin(reach)], xAxisKey, j - 1)
                IN  /\ x \in Nat
                    /\ x \notin {Null, Undefined}
                    /\ x = IF reach # {} /\ sample # Null THEN sample ELSE j - 1

\* one chart has a point whose x-axis sample is null in the first run, and a
\* point past the end of every x-axis series
C36_Witness ==
    /\ pc = "aligned"
    /\ \E e \in Range(chartDataByMetric) :
          /\ \E j \in 1..Len(e.data) :
                /\ RunsReachingX(j - 1) # {}
                /\ SampleAt(stableMetricsData,
                            selectedRunIds[SetMin(RunsReachingX(j - 1))],
                            xAxisKey, j - 1) = Null
                /\ e.data[j]["xValue"] = j - 1
          /\ \E j \in 1..Len(e.data) :
                /\ RunsReachingX(j - 1) = {}
                /\ \E r \in Range(selectedRunIds) :
                      HasSeries(stableMetricsData, r, xAxisKey)

(***************************************************************************)
(* Claims about navigation from a stale pin (checked under SpecPin)        *)
(***************************************************************************)
\* pinned is set and is no member of the current xs
StalePinned == pinnedXValue # Null /\ pinnedXValue \notin Range(xAxisValueOptions)

\* C37 (stale pin navigation): when pinned is non-null but no member of xs,
\* its index is -1 as for an unset pin; prev() leaves pinned unchanged and
\* next() replaces it with xs[0] when xs is non-empty (and leaves it
\* unchanged when xs is empty), exactly as the two buttons do for an unset
\* pin.
C37_StalePinNavigation ==
    /\ [](StalePinned =>
            LET xs == xAxisValueOptions
            IN  /\ pinnedIndex = PinnedIndex(xs, Null)
                /\ PrevPinned(xs, pinnedIndex, pinnedXValue) = pinnedXValue
                /\ NextPinned(xs, pinnedIndex, pinnedXValue)
                   = IF xs # <<>> THEN xs[0 + 1] ELSE pinnedXValue
                /\ xs # <<>> =>
                      NextPinned(xs, pinnedIndex, pinnedXValue)
                      = NextPinned(xs, PinnedIndex(xs, Null), Null))
    /\ [][StalePinned =>
            /\ PinPrev => pinnedXValue' = pinnedXValue
            /\ PinNext => pinnedXValue' = IF xAxisValueOptions # <<>>
                                          THEN xAxisValueOptions[0 + 1]
                                          ELSE pinnedXValue
      ]_vars

\* the controls are shown with a stale pin that lies above the first of at
\* least two x values, so that next() moves it down to xs[0]
C37_Witness ==
    /\ ControlsShown
    /\ StalePinned
    /\ Len(xAxisValueOptions) >= 2
    /\ pinnedXValue > xAxisValueOptions[1]

\* a stale pin over an empty xs: both buttons leave it as it is
C37_WitnessEmpty ==
    /\ ControlsShown
    /\ StalePinned
    /\ xAxisValueOptions = <<>>

(***************************************************************************)
(* Claims about the frame of a resize move (checked under SpecLayout)      *)
(***************************************************************************)
\* C38 (resize frame): a resize move on one row changes only the RowSize
\* entry stored under the RowKey of that row: the entries of all other
\* RowKeys are kept as they are, and the active metric list, the display
\* order, columns, the expanded chart, pinned and hovered are unchanged.
C38_ResizeFrame ==
    [][resizeMoves' # resizeMoves =>
          /\ resize.active
          /\ DOMAIN rowSizes' = DOMAIN rowSizes \cup {resize.rowKey}
          /\ \A k \in DOMAIN rowSizes \ {resize.rowKey} : rowSizes'[k] = rowSizes[k]
          /\ activeMetrics' = activeMetrics
          /\ orderedMetrics' = orderedMetrics
          /\ columns' = columns
          /\ expandedChart' = expandedChart
          /\ pinnedXValue' = pinnedXValue
          /\ hoveredXValue' = hoveredXValue
      ]_vars

\* a move of a drag on one row while another RowKey holds a RowSize that an
\* earlier drag changed
C38_Witness ==
    /\ Moved
    /\ \E k \in DOMAIN rowSizes \ {resize.rowKey} :
          rowSizes[k].height # defaultHeight
    /\ rowSizes[resize.rowKey].height # defaultHeight

(***************************************************************************)
(* Claims about duplicates (checked under SpecLists)                       *)
(***************************************************************************)
NoDuplicates(s) == \A i \in 1..Len(s), j \in 1..Len(s) : s[i] = s[j] => i = j

\* C39 (no duplicates): starting from empty lists, activeMetrics holds no
\* metric twice after any sequence of toggleMetric, group select-all / none,
\* clear and reorder operations, and selectedRunIds holds no run twice after
\* any sequence of toggleRunSelection, clearSelection, run-set saves and
\* run-set loads; the saved run sets hold no run twice either.
C39_NoDuplicates ==
    /\ NoDuplicates(activeMetrics)
    /\ NoDuplicates(selectedRunIds)
    /\ \A i \in 1..Len(runSets) : NoDuplicates(runSets[i].runIds)

\* both metrics were put into the list and a reorder exchanged them, and
\* both runs are selected by the load of a run set over another selection
C39_Witness ==
    /\ lastDrop # NoDrop
    /\ lastDrop.before = <<"loss", "acc">>
    /\ activeMetrics = <<"acc", "loss">>
    /\ lastLoad # NoLoad
    /\ lastLoad.before # lastLoad.after
    /\ selectedRunIds = lastLoad.after
    /\ Len(selectedRunIds) = 2

(***************************************************************************)
(* Claims about the single-run delete (checked under SpecDelete)           *)
(***************************************************************************)
\* a delete has just completed successfully
DeleteCompleted == lastDelete' # lastDelete

\* C40 (delete and selection): a successful single-run delete removes
\* exactly that run from selectedRunIds; every other run keeps the selection
\* state it has when the delete completes, including runs selected or
\* deselected while the delete request was in flight.
C40_DeleteKeepsOthers ==
    [][DeleteCompleted =>
          selectedRunIds' = Without(selectedRunIds, deleting.runId)]_vars

\* what the handler does: the selection after a successful delete is the
\* selection of the render in which Delete was clicked, without the deleted
\* run, when that selection held the run, and the current selection
\* otherwise; the claim is met whenever the selection did not change while
\* the request was in flight
C40_FromClosure ==
    [][DeleteCompleted =>
          /\ selectedRunIds' =
                IF deleting.runId \in Range(deleting.selectedRunIds)
                THEN Without(deleting.selectedRunIds, deleting.runId)
                ELSE selectedRunIds
          /\ selectedRunIds = deleting.selectedRunIds
             => selectedRunIds' = Without(selectedRunIds, deleting.runId)]_vars

====
